---------------------------- MODULE Spec2Model ----------------------------
(***************************************************************************)
(* Workout-commitment state machine of the TaskMaster Telegram bot         *)
(* (src/handlers.py, src/gpt_tasks.py): reminder scheduler, capture        *)
(* session, photo verification, settlement and deposit bookkeeping, and    *)
(* the onboarding wizard.                                                  *)
(*                                                                         *)
(* One user is modelled: every piece of bot state is keyed by user_id      *)
(* (bot_data["session_active"][uid], bot_data["workout_session"][uid],     *)
(* job names "<uid>:...", one users row), so the key is left implicit.     *)
(*                                                                         *)
(* Optional values (a missing dict key, SQL NULL, Python None) are         *)
(* sequences of length <= 1: <<>> is None, <<v>> is the value v.           *)
(* A "HH:MM" string is the pair <<hh, mm>>; a python datetime.time is the  *)
(* record [hour, minute].  A calendar date is its day ordinal (day 0 is a  *)
(* Monday); date.isoformat() is injective, so membership of an ISO string  *)
(* in deposit_done_dates is membership of the ordinal.                     *)
(***************************************************************************)
EXTENDS Integers, Sequences, FiniteSets, TLC

\* ------------------------------------------------------------------ bounds
\* Days of wall-clock time a behaviour may span.
MaxDays == 2
\* Rows ever inserted into / attempted on the sets table in one behaviour
\* (the number of photos the user submits).
MaxPhotos == 4
\* Largest number of tokens in one workout_set payload.
MaxTokens == 2
\* /start commands issued while the wizard is running
MaxRestarts == 1
\* presses of inline buttons that belong to an earlier wizard message
MaxStale == 2
\* presses of the -5/-1/+1/+5 buttons of the common-duration keyboard
MaxAdjusts == 1
\* /upload requests and /pull requests the relay server receives
MaxUploads == 2
MaxPulls == 2
\* Largest photo, in bytes, and the bytes of one photo.read call (the code
\* reads 1 MiB at a time; photos of several chunks are what matters)
MaxBytes == 3
ChunkBytes == 2

\* ------------------------------------------------------- program constants
DayMinutes == 1440
WeekMinutes == 10080
EXPECTED_SHOTS == 3
NOSTART_MINUTES == 5
DEFAULT_DURATION == 60
DEFAULT_REST == 60
DEP_MIN == 500
\* max_tries of the retry decorator of verify_task_with_gpt
MAX_TRIES == 3
DEP_MAX == 100000

None == << >>
Some(v) == << v >>
IsNone(o) == o = << >>
\* python's  `o or d`  for an optional integer: None and 0 are falsy.
OrInt(o, d) == IF o = << >> THEN d ELSE IF o[1] = 0 THEN d ELSE o[1]

Max2(a, b) == IF a >= b THEN a ELSE b
Min2(a, b) == IF a <= b THEN a ELSE b

ORDERED_DAYS == << "mon", "tue", "wed", "thu", "fri", "sat", "sun" >>
DaySet == { ORDERED_DAYS[i] : i \in 1..7 }
\* day_idx of _schedule_reminders_per_day: mon -> 0 .. sun -> 6.
day_idx(d) == (CHOOSE i \in 1..7 : ORDERED_DAYS[i] = d) - 1

\* ------------------------------------------------------------ time helpers
\* _parse_time_hhmm on a string whose first "H:MM" match is the pair s.
_parse_time_hhmm(s) ==
    IF 0 <= s[1] /\ s[1] < 24 /\ 0 <= s[2] /\ s[2] < 60
    THEN Some([hour |-> s[1], minute |-> s[2]])
    ELSE None

\* time.strftime("%H:%M")
strftime(t) == << t.hour, t.minute >>

\* Mutant of _add_minutes_to_time: the day shift is dropped.
_add_minutes_to_time_noshift(t, minutes) ==
    LET total == t.hour * 60 + t.minute + minutes
    IN  [time |-> [hour |-> (total % DayMinutes) \div 60,
                   minute |-> (total % DayMinutes) % 60],
         day_shift |-> 0]

\* _add_minutes_to_time: the wall-clock time `minutes` after t and the number
\* of calendar days crossed (timedelta arithmetic on an aware datetime of one
\* tzinfo is wall-clock arithmetic).
_add_minutes_to_time(t, minutes) ==
    LET total == t.hour * 60 + t.minute + minutes
    IN  [time |-> [hour |-> (total % DayMinutes) \div 60,
                   minute |-> (total % DayMinutes) % 60],
         day_shift |-> total \div DayMinutes]


\* --------------------------------------------------------------- variables
VARIABLES
    now,              \* wall clock, minutes since Monday 00:00 of day 0
    jobs,             \* application.job_queue: the list jq.jobs()
    user_row,         \* the user's row of table users, None before /start
    session_active,   \* bot_data["session_active"].get(uid)
    workout_session,  \* bot_data["workout_session"].get(uid)
    sets,             \* table sets: the verified column, in insertion order
    photos_used,      \* photos submitted so far (bounded by MaxPhotos)
    outbox,           \* kinds of messages delivered to the user
    sched_last,       \* history: arguments of the last scheduler call
    sched_tick,       \* history: flips on every scheduler call
    last_fin,         \* history: the last settlement
    win,              \* history: the capture window opened by the last start_cb
    last_photo,       \* history: the last _save_training_photo call
    reg,              \* context.user_data.get("reg"): the wizard state
    buttons,          \* callback data of the inline buttons sent so far
    reg_done,         \* history: how the wizard last ended
    wiz,              \* wizard input accounting: latest keyboard, budgets used
    gpt_call,         \* history: the last call of verify_task_with_gpt
    relay,            \* server.py: TOKENS, the files of TMP_DIR, open requests
    flight,           \* coroutines suspended at an await: photo handler, no-start job
    user_data,        \* context.user_data of the reminders dialogue
    configured        \* history: the daily jobs of the last completed configuration

vars == << now, jobs, user_row, session_active, workout_session, sets,
           photos_used, outbox, sched_last, sched_tick, last_fin, win,
           last_photo, reg, buttons, reg_done, wiz, gpt_call, relay, flight,
           user_data, configured >>

\* The variables of the relay server, the suspended coroutines, the reminders
\* dialogue and the configuration history, for the frame of the actions that
\* touch none of them.
elsewhere == << gpt_call, relay, flight, user_data, configured >>

UID == "u1"
OTHER_UID == "u2"

\* ---------------------------------------------------------------- job queue
Horizon == MaxDays * DayMinutes

\* telegram.ext.JobQueue.run_daily numbers weekdays 0 = Sunday .. 6 = Saturday;
\* the position of (day, time) in a week that starts on Monday 00:00.
WeekPos(day, t) == ((day + 6) % 7) * DayMinutes + t.hour * 60 + t.minute

\* First run of a daily job registered at clock `at`: the next matching
\* weekday and time strictly after `at`.
NextRun(day, t, at) ==
    LET base == at - (at % WeekMinutes) + WeekPos(day, t)
    IN  IF base > at THEN base ELSE base + WeekMinutes

DailyJob(user_id, d, k, day, t, at) ==
    [owner |-> user_id, name |-> << d, k >>, day |-> day, time |-> t,
     next |-> NextRun(day, t, at)]

OnceJob(user_id, k, at, delay) ==
    [owner |-> user_id, name |-> << k >>, day |-> 0 - 1,
     time |-> [hour |-> 0, minute |-> 0], next |-> at + delay]

IsDaily(j) == Len(j.name) = 2

\* Mutant of _clear_user_jobs: the removal is forgotten.
_clear_user_jobs_keep(J, user_id) == J

\* _clear_user_jobs: every job whose name starts with "<user_id>:" is removed.
_clear_user_jobs(J, user_id) ==
    SelectSeq(J, LAMBDA j : j.owner # user_id)

\* The three run_daily registrations of one day of the schedule, or none when
\* the day is absent or its time does not parse.
RegisterDay(J, user_id, d, per_day_time, per_day_duration, default_duration_min, at) ==
    IF d \notin DOMAIN per_day_time THEN J
    ELSE
    LET t == _parse_time_hhmm(per_day_time[d])
    IN  IF IsNone(t) THEN J
        ELSE
        LET t_z == t[1]
            pdd == IF IsNone(per_day_duration) THEN << >> ELSE per_day_duration[1]
            dur0 == IF d \in DOMAIN pdd THEN pdd[d] ELSE default_duration_min
            dur == IF dur0 < 1 THEN default_duration_min ELSE dur0
            mid == _add_minutes_to_time(t_z, Max2(dur \div 2, 1))
            end == _add_minutes_to_time(t_z, dur)
            base_day == (day_idx(d) + 1) % 7
            mid_day == (base_day + mid.day_shift) % 7
            end_day == (base_day + end.day_shift) % 7
        IN  J \o << DailyJob(user_id, d, "start", base_day, t_z, at),
                    DailyJob(user_id, d, "mid", mid_day, mid.time, at),
                    DailyJob(user_id, d, "end", end_day, end.time, at) >>

RECURSIVE RegisterDays(_, _, _, _, _, _, _)
RegisterDays(J, user_id, i, per_day_time, per_day_duration, default_duration_min, at) ==
    IF i > Len(ORDERED_DAYS) THEN J
    ELSE RegisterDays(
            RegisterDay(J, user_id, ORDERED_DAYS[i], per_day_time,
                        per_day_duration, default_duration_min, at),
            user_id, i + 1, per_day_time, per_day_duration,
            default_duration_min, at)

\* _schedule_reminders_per_day with a job queue available: the job list after
\* the call.
_schedule_reminders_per_day(J, user_id, per_day_time, per_day_duration, default_duration_min, at) ==
    LET cleared == _clear_user_jobs(J, user_id)
    IN  IF per_day_time = << >> THEN cleared
        ELSE RegisterDays(cleared, user_id, 1, per_day_time, per_day_duration,
                          default_duration_min, at)

SchedArgs(per_day_time, per_day_duration, default_duration_min) ==
    Some([per_day_time |-> per_day_time, per_day_duration |-> per_day_duration,
          default_duration_min |-> default_duration_min])


\* ------------------------------------------------------------ initial state
\* server.py at start-up: no token, no file, no open request.
RelayStart ==
    [TOKENS |-> << >>, files |-> << >>, uploads |-> << >>, pulls |-> << >>,
     issued |-> 0, sent |-> << >>]

\* No coroutine is suspended; writes and notices count the UPDATEs and
\* delivered notices of _forfeit_deposit, nostart_wrote tells whether the
\* no-start job made one of the writes.
NoFlight ==
    [photo |-> None, nostart |-> None, writes |-> 0, notices |-> 0,
     nostart_wrote |-> FALSE]

InitCommon ==
    /\ now = 0
    /\ jobs = << >>
    /\ user_row = None
    /\ session_active = FALSE
    /\ workout_session = None
    /\ sets = << >>
    /\ photos_used = 0
    /\ outbox = {}
    /\ sched_last = None
    /\ sched_tick = FALSE
    /\ last_fin = None
    /\ win = None
    /\ last_photo = None
    /\ reg = None
    /\ buttons = {}
    /\ reg_done = None
    /\ wiz = [latest |-> {}, stale |-> 0, restarts |-> 0, adjusts |-> 0]
    /\ gpt_call = None
    /\ relay = RelayStart
    /\ flight = NoFlight
    /\ user_data = None
    /\ configured = None

\* =========================================================================
\* SpecSched: _schedule_reminders_per_day applied to schedules drawn from a
\* bounded set, starting from an empty queue or from a queue that holds a
\* pending no-start job of the user and a daily job of another user.
\* =========================================================================
SchedDays == { "sat", "sun" }
SchedTimes == { << 7, 30 >>, << 23, 58 >>, << 24, 0 >> }
SchedDurations == { 1, 3, 240 }
SchedDefaults == { DEFAULT_DURATION }

\* All dicts with keys in K and values in V.
Dicts(K, V) == UNION { [ks -> V] : ks \in SUBSET K }

ForeignJob ==
    DailyJob(OTHER_UID, "mon", "start", 1, [hour |-> 8, minute |-> 0], 0)

InitSched ==
    /\ now = 0
    /\ jobs \in { << >>,
                  << ForeignJob, OnceJob(UID, "nostart", 0, NOSTART_MINUTES) >> }
    /\ user_row = None
    /\ session_active = FALSE
    /\ workout_session = None
    /\ sets = << >>
    /\ photos_used = 0
    /\ outbox = {}
    /\ sched_last = None
    /\ sched_tick = FALSE
    /\ last_fin = None
    /\ win = None
    /\ last_photo = None
    /\ reg = None
    /\ buttons = {}
    /\ reg_done = None
    /\ wiz = [latest |-> {}, stale |-> 0, restarts |-> 0, adjusts |-> 0]
    /\ gpt_call = None
    /\ relay = RelayStart
    /\ flight = NoFlight
    /\ user_data = None
    /\ configured = None

SchedCall ==
    \E per_day_time \in Dicts(SchedDays, SchedTimes),
       per_day_duration \in { None } \cup { Some(f) : f \in Dicts(SchedDays, SchedDurations) },
       default_duration_min \in SchedDefaults :
        /\ jobs' = _schedule_reminders_per_day(jobs, UID, per_day_time,
                        per_day_duration, default_duration_min, now)
        /\ sched_last' = SchedArgs(per_day_time, per_day_duration, default_duration_min)
        /\ sched_tick' = ~sched_tick
        /\ UNCHANGED << now, user_row, session_active, workout_session, sets,
                        photos_used, outbox, last_fin, win, last_photo, elsewhere, reg,
                        buttons, reg_done, wiz >>

NextSched == SchedCall

SpecSched == InitSched /\ [][NextSched]_vars

\* ------------------------------------------------------------- C6 and C7
MyJobs == SelectSeq(jobs, LAMBDA j : j.owner = UID)
JobsNamed(d, k) == SelectSeq(MyJobs, LAMBDA j : j.name = << d, k >>)
Kinds == { "start", "mid", "end" }
ValidDays(S) == { d \in DOMAIN S : ~IsNone(_parse_time_hhmm(S[d])) }

\* C6 (first half): after a scheduler call with schedule S the user's jobs
\* are exactly one start, one mid and one end job for every day of S whose
\* time is a valid HH:MM, the start job carrying that time; nothing else of
\* the user (no job of an earlier schedule) is left in the queue.
C6_Exact ==
    sched_last # None =>
        LET S == sched_last[1].per_day_time
        IN  /\ \A d \in DaySet, k \in Kinds :
                   Len(JobsNamed(d, k)) = IF d \in ValidDays(S) THEN 1 ELSE 0
            /\ Len(MyJobs) = 3 * Cardinality(ValidDays(S))
            /\ \A d \in ValidDays(S) :
                   strftime(JobsNamed(d, "start")[1].time) = S[d]

\* C6 (second half): a scheduler call that repeats the arguments of the
\* previous call leaves the job list as it was.
C6_IdemStep ==
    (sched_tick' # sched_tick /\ sched_last' = sched_last /\ now' = now)
        => jobs' = jobs

\* C6: exactly the jobs of S after every call, and idempotence.
C6_Theorem == [](C6_Exact) /\ [][C6_IdemStep]_vars

\* A call made on a queue that held older jobs, with a schedule that has a
\* valid and an invalid day.
C6_Witness ==
    /\ sched_last # None
    /\ sched_tick = FALSE
    /\ ValidDays(sched_last[1].per_day_time) = { "sun" }
    /\ DOMAIN sched_last[1].per_day_time = { "sat", "sun" }
    /\ Len(MyJobs) = 3


\* Minutes from the weekly firing time of job a to that of job b.
Elapsed(a, b) ==
    (WeekPos(b.day, b.time) - WeekPos(a.day, a.time) + WeekMinutes) % WeekMinutes

\* The duration the scheduler call used for day d.
UsedDuration(d) ==
    LET a == sched_last[1]
        pdd == IF IsNone(a.per_day_duration) THEN << >> ELSE a.per_day_duration[1]
    IN  IF d \in DOMAIN pdd /\ pdd[d] >= 1 THEN pdd[d] ELSE a.default_duration_min

\* The job registered off minutes after start job s lies on s's weekday when
\* s.time + off stays before midnight and on the following weekday otherwise.
OnDayAfter(s, j, off) ==
    IF s.time.hour * 60 + s.time.minute + off < DayMinutes
    THEN j.day = s.day
    ELSE j.day = (s.day + 1) % 7

\* C7: for every scheduled day with duration dur in 1..240 the mid job fires
\* max(dur \div 2, 1) minutes and the end job dur minutes after the start job,
\* each on the start job's weekday or, past midnight, on the following one
\* (Saturday 6 -> Sunday 0 -> Monday 1), so that start < mid <= end.
C7_Theorem ==
    sched_last # None =>
        \A d \in ValidDays(sched_last[1].per_day_time) :
            LET s == JobsNamed(d, "start")[1]
                m == JobsNamed(d, "mid")[1]
                e == JobsNamed(d, "end")[1]
                dur == UsedDuration(d)
            IN  (dur >= 1 /\ dur <= 240) =>
                    /\ s.day = (day_idx(d) + 1) % 7
                    /\ Elapsed(s, m) = Max2(dur \div 2, 1)
                    /\ Elapsed(s, e) = dur
                    /\ OnDayAfter(s, m, Max2(dur \div 2, 1))
                    /\ OnDayAfter(s, e, dur)
                    /\ 0 < Elapsed(s, m)
                    /\ Elapsed(s, m) <= Elapsed(s, e)

\* Sunday 23:58 with 3 minutes: mid stays on Sunday, end falls on Monday.
C7_Witness ==
    /\ sched_last # None
    /\ "sun" \in ValidDays(sched_last[1].per_day_time)
    /\ sched_last[1].per_day_time["sun"] = << 23, 58 >>
    /\ UsedDuration("sun") = 3
    /\ JobsNamed("sun", "mid")[1].day = 0
    /\ JobsNamed("sun", "end")[1].day = 1
    /\ JobsNamed("sun", "end")[1].time = [hour |-> 0, minute |-> 1]


\* =========================================================================
\* The stored record, photo verification, forfeiture and settlement.
\* =========================================================================

\* users.training_form as a dict: a missing key and a null value read the same
\* through tf.get(k), so both are None here; started_key tells whether the
\* key deposit_started_at exists (dict.setdefault looks at the key, not at
\* the value).  deposit_done_dates missing reads as the empty list,
\* deposit_forfeit missing as False.
EmptyTF ==
    [per_day_time |-> << >>, per_day_duration |-> << >>,
     deposit |-> None, deposit_days |-> None,
     started_key |-> FALSE, deposit_started_at |-> None,
     deposit_done_dates |-> << >>,
     deposit_forfeit |-> FALSE, deposit_left |-> None]

\* _load_training_form(row.get("training_form") if row else None) or {}
_load_training_form(row) ==
    IF IsNone(row) THEN EmptyTF
    ELSE IF IsNone(row[1].training_form) THEN EmptyTF
    ELSE row[1].training_form[1]

\* UPDATE users SET training_form = $2 WHERE user_id = $1
UpdateTrainingForm(row, tf) ==
    IF IsNone(row) THEN row
    ELSE Some([row[1] EXCEPT !.training_form = Some(tf)])

\* datetime.now(tz).date() at clock value t
Today(t) == t \div DayMinutes

Contains(seq, x) == \E i \in 1..Len(seq) : seq[i] = x

\* --- photo verification ---------------------------------------------------
\* What the vision model answers: the call raises (failed), or it returns a
\* JSON object whose success / is_home values are truthy or not.
GptAnswers ==
    { [failed |-> TRUE, success |-> FALSE, is_home |-> FALSE] } \cup
    { [failed |-> FALSE, success |-> a, is_home |-> b] : a, b \in BOOLEAN }

\* verify_task_with_gpt: any exception is turned into a negative result.
verify_task_with_gpt(answer) ==
    IF answer.failed
    THEN [success |-> FALSE, is_home |-> FALSE]
    ELSE [success |-> answer.success, is_home |-> answer.is_home]

\* Whether an exception of the model call leaves verify_task_with_gpt: the
\* try block spans the whole body and its handler returns the negative
\* result, so none does.
VerifyRaises(answer) == FALSE

\* @backoff.on_exception(backoff.expo, Exception, max_tries=3) around
\* verify_task_with_gpt; answers[k] is what the model would answer to
\* attempt k.  The wrapped function is called again while it raises and
\* fewer than MAX_TRIES calls were made.
backoff_on_exception(answers) ==
    LET stops == { k \in 1..MAX_TRIES : ~VerifyRaises(answers[k]) \/ k = MAX_TRIES }
        last == CHOOSE k \in stops : \A other \in stops : k <= other
    IN  [attempts |-> last,
         raised |-> VerifyRaises(answers[last]),
         value |-> verify_task_with_gpt(answers[last])]

\* Mutant of _save_training_photo: the is_home gate is missing.
_save_training_photo_nohome(answer, insert_ok) ==
    LET gpt == verify_task_with_gpt(answer)
    IN  IF insert_ok
        THEN [ret |-> gpt.success, row |-> Some(gpt.success)]
        ELSE [ret |-> FALSE, row |-> None]

\* _save_training_photo(notify=False): the returned flag and the row inserted
\* into sets (None when the INSERT raised).
_save_training_photo(answer, insert_ok) ==
    LET gpt == verify_task_with_gpt(answer)
        verified0 == gpt.success
        verified == IF verified0 /\ ~gpt.is_home THEN FALSE ELSE verified0
    IN  IF insert_ok
        THEN [ret |-> verified, row |-> Some(verified)]
        ELSE [ret |-> FALSE, row |-> None]

\* --- session ---------------------------------------------------------------
NewSession == [expected |-> EXPECTED_SHOTS, results |-> << >>]

\* _ws_get: the user's session, created when missing.
_ws_get(ws) == IF IsNone(ws) THEN NewSession ELSE ws[1]

CountTrue(results) == Len(SelectSeq(results, LAMBDA x : x))

\* Mutant of Threshold: every shot must be verified.
Threshold_all(expected) == expected

\* threshold = expected - 1 if expected >= 3 else expected
Threshold(expected) == IF expected >= 3 THEN expected - 1 ELSE expected

\* _cancel_timers of _finalize_workout
_cancel_timers(J, user_id) ==
    SelectSeq(J, LAMBDA j : ~(j.owner = user_id /\
                              j.name \in { << "nostart" >>, << "noresult" >> }))

\* --- forfeiture --------------------------------------------------------------
\* Mutant of _forfeit_deposit: the record is written and the notice sent
\* again when the deposit is already forfeited.
_forfeit_deposit_again(row, notice_ok) ==
    LET tf == _load_training_form(row)
    IN  IF OrInt(tf.deposit, 0) <= 0
        THEN [row |-> row, wrote |-> FALSE, noticed |-> FALSE]
        ELSE [row |-> UpdateTrainingForm(row,
                        [tf EXCEPT !.deposit_forfeit = TRUE,
                                   !.deposit_left = Some(0)]),
              wrote |-> TRUE, noticed |-> notice_ok]

\* _forfeit_deposit: the row after the call, whether the record was written
\* and whether the notice reached the user (a failed send is swallowed).
_forfeit_deposit(row, notice_ok) ==
    LET tf == _load_training_form(row)
    IN  IF tf.deposit_forfeit
        THEN [row |-> row, wrote |-> FALSE, noticed |-> FALSE]
        ELSE IF OrInt(tf.deposit, 0) <= 0
        THEN [row |-> row, wrote |-> FALSE, noticed |-> FALSE]
        ELSE [row |-> UpdateTrainingForm(row,
                        [tf EXCEPT !.deposit_forfeit = TRUE,
                                   !.deposit_left = Some(0)]),
              wrote |-> TRUE, noticed |-> notice_ok]


\* --- settlement --------------------------------------------------------------
\* How the Telegram sends of one update turn out: the settlement result
\* message, the forfeiture notice, the freeze-complete prompt.
\* A settlement sends either the notice or the prompt, never both, so one
\* failing send at a time covers every combination.
TgOutcome(r, n, p) == [result_ok |-> r, notice_ok |-> n, prompt_ok |-> p]
TgOutcomes ==
    { TgOutcome(TRUE, TRUE, TRUE), TgOutcome(FALSE, TRUE, TRUE),
      TgOutcome(TRUE, FALSE, TRUE), TgOutcome(TRUE, TRUE, FALSE) }

\* Credited branch of _finalize_workout after the result message went out:
\* the progress bookkeeping on the stored record.
CreditProgress(row, today) ==
    LET tf == _load_training_form(row)
        deposit_days == OrInt(tf.deposit_days, 0)
        started == IF tf.started_key THEN tf.deposit_started_at ELSE Some(today)
        done_dates == IF Contains(tf.deposit_done_dates, today)
                      THEN tf.deposit_done_dates
                      ELSE Append(tf.deposit_done_dates, today)
        tf2 == [tf EXCEPT !.started_key = TRUE,
                          !.deposit_started_at = started,
                          !.deposit_done_dates = done_dates]
    IN  IF deposit_days > 0
        THEN [row |-> UpdateTrainingForm(row, tf2),
              complete |-> Len(done_dates) >= deposit_days]
        ELSE [row |-> row, complete |-> FALSE]

\* _finalize_workout(context, user_id, results): the row, jobs and outbox
\* after the call, the verdict, and whether the call raised (the result
\* message is sent outside any try block).
_finalize_workout(row, J, ob, user_id, expected, results, tg, today) ==
    LET received == Len(results)
        verified == CountTrue(results)
        threshold == Threshold(expected)
        credited == verified >= threshold
        base == [received |-> received, verified |-> verified,
                 expected |-> expected, credited |-> credited]
        prog == CreditProgress(row, today)
        forf == _forfeit_deposit(row, tg.notice_ok)
    IN  IF ~tg.result_ok
        THEN base @@ [row |-> row, jobs |-> J, outbox |-> ob,
                      raised |-> TRUE, wrote |-> FALSE, noticed |-> FALSE]
        ELSE IF credited
        THEN base @@ [row |-> prog.row,
                      jobs |-> _cancel_timers(J, user_id),
                      outbox |-> ob \cup (IF prog.complete /\ tg.prompt_ok
                                        THEN { "freeze_complete" } ELSE {}),
                      raised |-> FALSE, wrote |-> FALSE, noticed |-> FALSE]
        ELSE base @@ [row |-> forf.row,
                      jobs |-> _cancel_timers(J, user_id),
                      outbox |-> ob,
                      raised |-> FALSE, wrote |-> forf.wrote,
                      noticed |-> forf.noticed]


\* --- wizard state and its final step ------------------------------------------
\* context.user_data["reg"] right after register_start
RegStart ==
    [step |-> "await_qa_begin",
     schedule_map_time |-> << >>, schedule_map_duration |-> << >>,
     dur_mode |-> "", duration_common_min |-> None,
     rest_seconds |-> None, deposit |-> None, deposit_days |-> None,
     deposit_started_at |-> None,
     chosen_days |-> {}, pending_days_time |-> << >>,
     pending_days_dur |-> << >>, temp_day_en |-> << >>]

\* The users row INSERTed by register_start
NewUserRow ==
    [training_form |-> None, reminder_enabled |-> FALSE,
     workout_duration |-> None, rest_seconds |-> None]

\* _already_registered
_already_registered(row) == _load_training_form(row).per_day_time # << >>

\* per_day_duration built by _persist_onboarding_schedule_per_day
PersistDurations(st) ==
    [d \in DOMAIN st.schedule_map_time |->
        IF st.dur_mode = "per_day"
        THEN IF d \in DOMAIN st.schedule_map_duration
             THEN (IF st.schedule_map_duration[d] = 0 THEN DEFAULT_DURATION
                   ELSE st.schedule_map_duration[d])
             ELSE DEFAULT_DURATION
        ELSE OrInt(st.duration_common_min, DEFAULT_DURATION)]

\* training_form written by _persist_onboarding_schedule_per_day: the key
\* deposit_started_at is always written (null unless the custom-amount step
\* set it), deposit_done_dates is empty.
PersistForm(st) ==
    [per_day_time |-> st.schedule_map_time,
     per_day_duration |-> PersistDurations(st),
     deposit |-> st.deposit, deposit_days |-> st.deposit_days,
     started_key |-> TRUE, deposit_started_at |-> st.deposit_started_at,
     deposit_done_dates |-> << >>,
     deposit_forfeit |-> FALSE, deposit_left |-> None]

\* _persist_onboarding_schedule_per_day: nothing is saved or scheduled when
\* schedule_map_time is empty; the UPDATE touches an existing row only.
_persist_onboarding_schedule_per_day(row, J, user_id, st, at) ==
    LET common == IF st.dur_mode = "per_day" THEN None
                  ELSE Some(OrInt(st.duration_common_min, DEFAULT_DURATION))
        rest == OrInt(st.rest_seconds, DEFAULT_REST)
        tf == PersistForm(st)
    IN  IF st.schedule_map_time = << >>
        THEN [saved |-> FALSE, row |-> row, jobs |-> J]
        ELSE [saved |-> TRUE,
              row |-> IF IsNone(row) THEN row
                      ELSE Some([training_form |-> Some(tf),
                                 reminder_enabled |-> TRUE,
                                 workout_duration |-> common,
                                 rest_seconds |-> Some(rest)]),
              jobs |-> _schedule_reminders_per_day(J, user_id,
                          tf.per_day_time, Some(tf.per_day_duration),
                          OrInt(common, DEFAULT_DURATION), at)]

\* _reschedule_from_db: jobs and session flag after the call.
_reschedule_from_db(row, J, active, user_id, at) ==
    LET tf == _load_training_form(row)
        default_dur == OrInt(row[1].workout_duration, DEFAULT_DURATION)
        per_day_duration == IF tf.per_day_duration = << >> THEN None
                            ELSE Some(tf.per_day_duration)
    IN  IF IsNone(row) THEN [jobs |-> J, active |-> active]
        ELSE IF ~row[1].reminder_enabled
        THEN [jobs |-> _clear_user_jobs(J, user_id), active |-> FALSE]
        ELSE IF tf.per_day_time # << >>
        THEN [jobs |-> _schedule_reminders_per_day(J, user_id,
                          tf.per_day_time, per_day_duration,
                          default_dur, at),
              active |-> active]
        ELSE [jobs |-> J, active |-> active]


\* =========================================================================
\* Spec: one registered user over MaxDays days.  The clock moves from one
\* timed event to the next; between events the user sends photo payloads,
\* timezone payloads and presses the freeze-complete button.  Web-app
\* payloads need the web-app keyboard button, which only start_cb and mid_cb
\* hand out; outbox keeps the sent messages that carry inline buttons.
\* =========================================================================

\* Wizard outcomes drawn for the final step (the dialogue that builds them is
\* SpecWizard's subject).
FinishTimes == { [mon |-> << 23, 58 >>] }
FinishDurations == { 5, 60 }
FinishDeposits == { DEP_MIN }
FinishDays == { 2 }

FinishStates ==
    { [RegStart EXCEPT !.step = "ask_deposit_days",
                       !.schedule_map_time = S,
                       !.dur_mode = "same",
                       !.duration_common_min = Some(dur),
                       !.rest_seconds = Some(DEFAULT_REST),
                       !.deposit = Some(dep)] :
        S \in FinishTimes, dur \in FinishDurations, dep \in FinishDeposits }

\* Inputs of one photo: the vision answer and whether the INSERT succeeds.
PhotoInput(s, h, ins) ==
    [answer |-> [failed |-> FALSE, success |-> s, is_home |-> h], insert_ok |-> ins]
PhotoInputs ==
    { PhotoInput(TRUE, TRUE, TRUE), PhotoInput(TRUE, FALSE, TRUE),
      PhotoInput(TRUE, TRUE, FALSE) }

Indices(J) == 1..Len(J)
RemoveAt(J, i) == [k \in 1..(Len(J) - 1) |-> IF k < i THEN J[k] ELSE J[k + 1]]
HasJob(J, user_id, nm) == \E i \in Indices(J) : J[i].owner = user_id /\ J[i].name = nm
RemoveNamed(J, user_id, nm) ==
    SelectSeq(J, LAMBDA j : ~(j.owner = user_id /\ j.name = nm))

\* The no-start deadline announced by the last start_cb is still ahead.
DeadlineOpen == win # None /\ ~win[1].closed

\* Daily job i is the next timed event (a daily job due at the very minute of
\* the no-start deadline runs first: run_once counts its five minutes from
\* the moment start_cb executes).
DailyDue(i) ==
    /\ IsDaily(jobs[i])
    /\ jobs[i].next <= Horizon
    /\ \A k \in Indices(jobs) : jobs[i].next <= jobs[k].next
    /\ DeadlineOpen => jobs[i].next <= win[1].due

OnceDue(i) ==
    /\ ~IsDaily(jobs[i])
    /\ jobs[i].next <= Horizon
    /\ \A k \in Indices(jobs) : IsDaily(jobs[k]) => jobs[i].next < jobs[k].next

\* The job list after daily job i ran: it is due again a week later.
Fired(i) == [jobs EXCEPT ![i].next = jobs[i].next + WeekMinutes]


\* The eligibility start_cb reads for its "money at stake" line, and the
\* window bookkeeping of the no-start deadline (observation only).
OpenWindow(row, at) ==
    LET tf == _load_training_form(row)
    IN  Some([due |-> at + NOSTART_MINUTES,
              eligible |-> ~tf.deposit_forfeit /\ OrInt(tf.deposit, 0) > 0,
              photo |-> FALSE, closed |-> FALSE,
              forfeited |-> FALSE, active |-> FALSE])

CloseWindow(w, row, active) ==
    IF IsNone(w) THEN w
    ELSE Some([w[1] EXCEPT !.closed = TRUE,
                           !.forfeited = _load_training_form(row).deposit_forfeit,
                           !.active = active])

MarkPhoto(w) ==
    IF IsNone(w) THEN w
    ELSE IF w[1].closed THEN w
    ELSE Some([w[1] EXCEPT !.photo = TRUE])

\* the first /start: register_start
register_start ==
    /\ reg = None
    /\ reg_done = None
    /\ ~_already_registered(user_row)
    /\ user_row' = IF IsNone(user_row) THEN Some(NewUserRow) ELSE user_row
    /\ reg' = Some(RegStart)
    /\ buttons' = buttons \cup { << "ob_next" >> }
    /\ wiz' = [wiz EXCEPT !.latest = { << "ob_next" >> }]
    /\ UNCHANGED << now, jobs, session_active, workout_session, sets,
                    photos_used, outbox, sched_last, sched_tick, last_fin,
                    win, last_photo, elsewhere, reg_done >>

\* register_text at step ask_deposit_days: the number of days is typed,
\* _reg_finish, _persist_onboarding_schedule_per_day, the wizard state is
\* dropped.
RegisterFinish ==
    /\ reg # None
    /\ \E st0 \in FinishStates, days \in FinishDays :
         LET st == [st0 EXCEPT !.deposit_days = Some(days)]
             p == _persist_onboarding_schedule_per_day(user_row, jobs, UID, st, now)
         IN  /\ user_row' = p.row
             /\ jobs' = p.jobs
             /\ reg' = None
    /\ UNCHANGED << now, session_active, workout_session, sets, photos_used,
                    outbox, sched_last, sched_tick, last_fin, win, last_photo, elsewhere,
                    buttons, reg_done, wiz >>

\* start_cb of a "<uid>:<day>:start" job
start_cb ==
    \E i \in Indices(jobs) :
        /\ DailyDue(i)
        /\ jobs[i].name[2] = "start"
        /\ now' = jobs[i].next
        /\ session_active' = TRUE
        /\ workout_session' = Some(NewSession)
        /\ jobs' = Append(RemoveNamed(Fired(i), jobs[i].owner, << "nostart" >>),
                          OnceJob(jobs[i].owner, "nostart", jobs[i].next,
                                  NOSTART_MINUTES))
        /\ win' = OpenWindow(user_row, jobs[i].next)
        /\ buttons' = buttons \cup { << "webapp" >> }
        /\ UNCHANGED << user_row, sets, photos_used, outbox, sched_last,
                        sched_tick, last_fin, last_photo, elsewhere, reg, reg_done, wiz >>

\* mid_cb of a "<uid>:<day>:mid" job
mid_cb ==
    \E i \in Indices(jobs) :
        /\ DailyDue(i)
        /\ jobs[i].name[2] = "mid"
        /\ now' = jobs[i].next
        /\ session_active' = TRUE
        /\ jobs' = Fired(i)
        /\ buttons' = buttons \cup { << "webapp" >> }
        /\ UNCHANGED << user_row, workout_session, sets, photos_used, outbox,
                        sched_last, sched_tick, last_fin, win, last_photo, elsewhere, reg,
                        reg_done, wiz >>

\* end_cb of a "<uid>:<day>:end" job
end_cb ==
    \E i \in Indices(jobs) :
        /\ DailyDue(i)
        /\ jobs[i].name[2] = "end"
        /\ now' = jobs[i].next
        /\ session_active' = FALSE
        /\ jobs' = Fired(i)
        /\ UNCHANGED << user_row, workout_session, sets, photos_used, outbox,
                        sched_last, sched_tick, last_fin, win, last_photo, elsewhere, reg,
                        buttons, reg_done, wiz >>

\* _no_start_job, five minutes after start_cb
_no_start_job ==
    \E i \in Indices(jobs), notice_ok \in BOOLEAN :
        LET started == Len(_ws_get(workout_session).results) > 0
            hit == ~started /\ session_active
            forf == _forfeit_deposit(user_row, notice_ok)
        IN  /\ OnceDue(i)
            /\ jobs[i].name = << "nostart" >>
            /\ now' = jobs[i].next
            /\ jobs' = RemoveAt(jobs, i)
            /\ workout_session' = Some(_ws_get(workout_session))
            /\ user_row' = IF hit THEN forf.row ELSE user_row
            /\ session_active' = IF hit THEN FALSE ELSE session_active
            /\ win' = CloseWindow(win, user_row', session_active')
            /\ UNCHANGED << sets, photos_used, outbox, sched_last, sched_tick,
                            last_fin, last_photo, elsewhere, reg, buttons, reg_done, wiz >>

\* The announced five minutes run out while no no-start job is queued any
\* more: nothing executes, the clock passes the deadline.
DeadlinePasses ==
    /\ DeadlineOpen
    /\ ~HasJob(jobs, UID, << "nostart" >>)
    /\ win[1].due <= Horizon
    /\ \A k \in Indices(jobs) : win[1].due < jobs[k].next
    /\ now' = win[1].due
    /\ win' = CloseWindow(win, user_row, session_active)
    /\ UNCHANGED << jobs, user_row, session_active, workout_session, sets,
                    photos_used, outbox, sched_last, sched_tick, last_fin,
                    last_photo, elsewhere, reg, buttons, reg_done, wiz >>


\* What a settlement call left behind (observation only).
FinRecord(via, fin, row_before, today) ==
    Some([via |-> via, received |-> fin.received, verified |-> fin.verified,
          expected |-> fin.expected, credited |-> fin.credited,
          raised |-> fin.raised, noticed |-> fin.noticed, today |-> today,
          deposit_before |-> OrInt(_load_training_form(row_before).deposit, 0),
          forfeit_before |-> _load_training_form(row_before).deposit_forfeit,
          days_before |-> OrInt(_load_training_form(row_before).deposit_days, 0),
          notice_tried |-> fin.wrote,
          forfeit_after |-> _load_training_form(fin.row).deposit_forfeit,
          left_after |-> _load_training_form(fin.row).deposit_left,
          dates_after |-> _load_training_form(fin.row).deposit_done_dates])

\* The rows a list of _save_training_photo outcomes put into sets.
InsertedRows(saves) ==
    LET ins == SelectSeq(saves, LAMBDA r : ~IsNone(r.row))
    IN  [k \in 1..Len(ins) |-> ins[k].row[1]]

\* Mutant of SettleNow: one shot short of the expected number is enough.
SettleNow_early(ws) == Len(ws.results) >= ws.expected - 1

\* handle_webapp_data, single photo: len(ws["results"]) >= ws["expected"]
SettleNow(ws) == Len(ws.results) >= ws.expected

\* handle_webapp_data, type single_photo_uploaded / set_photo_uploaded, the
\* relay pull fails: a reply, nothing else.
SinglePhotoPullFails ==
    /\ << "webapp" >> \in buttons
    /\ win' = MarkPhoto(win)
    /\ UNCHANGED << now, jobs, user_row, session_active, workout_session, sets,
                    photos_used, outbox, sched_last, sched_tick, last_fin,
                    last_photo, elsewhere, reg, buttons, reg_done, wiz >>

\* handle_webapp_data, type single_photo_uploaded / set_photo_uploaded, the
\* photo is pulled from the relay.
SinglePhoto ==
    \E inp \in PhotoInputs, tg \in TgOutcomes :
        LET save == _save_training_photo(inp.answer, inp.insert_ok)
            ws0 == _ws_get(workout_session)
            ws == [ws0 EXCEPT !.results = Append(ws0.results, save.ret)]
            J1 == RemoveNamed(jobs, UID, << "nostart" >>)
            fin == _finalize_workout(user_row, J1, outbox, UID, ws.expected,
                                     ws.results, tg, Today(now))
        IN  /\ << "webapp" >> \in buttons
            /\ photos_used < MaxPhotos
            /\ photos_used' = photos_used + 1
            /\ win' = MarkPhoto(win)
            /\ sets' = sets \o InsertedRows(<< save >>)
            /\ IF SettleNow(ws)
               THEN /\ last_fin' = FinRecord("single", fin, user_row, Today(now))
                    /\ user_row' = fin.row
                    /\ jobs' = fin.jobs
                    /\ outbox' = fin.outbox
                    /\ workout_session' = IF fin.raised THEN Some(ws) ELSE None
                    /\ session_active' = IF fin.raised THEN session_active
                                         ELSE FALSE
               ELSE /\ workout_session' = Some(ws)
                    /\ jobs' = J1
                    /\ UNCHANGED << user_row, session_active, outbox, last_fin >>
            /\ UNCHANGED << now, sched_last, sched_tick, last_photo, elsewhere, reg,
                            buttons, reg_done, wiz >>

\* Mutant of PhotosKept: the photos pulled before the failing token are kept.
PhotosKept_partial(n, fail_at) == Min2(n, fail_at - 1)

\* handle_webapp_data, type workout_set with n tokens of which token fail_at
\* cannot be pulled (fail_at = n + 1: none fails): the number of photos that
\* reach the verification loop.  The handler returns at the first failure.
PhotosKept(n, fail_at) == IF fail_at <= n THEN 0 ELSE n

\* handle_webapp_data, type workout_set, the pull of one token fails: a
\* reply; the photos that reach the verification loop (none) are verified
\* and appended, no settlement follows.
WorkoutSetPullFails ==
    \E n \in 1..MaxTokens :
      \E fail_at \in 1..n :
        \E inps \in [1..PhotosKept(n, fail_at) -> PhotoInputs] :
          LET kept == PhotosKept(n, fail_at)
              saves == [k \in 1..kept |->
                           _save_training_photo(inps[k].answer, inps[k].insert_ok)]
              ws0 == _ws_get(workout_session)
              ws == [ws0 EXCEPT !.results =
                         ws0.results \o [k \in 1..kept |-> saves[k].ret]]
          IN  /\ << "webapp" >> \in buttons
              /\ photos_used + kept <= MaxPhotos
              /\ photos_used' = photos_used + kept
              /\ win' = MarkPhoto(win)
              /\ sets' = sets \o InsertedRows(saves)
              /\ workout_session' = IF kept = 0 THEN workout_session ELSE Some(ws)
              /\ UNCHANGED << now, jobs, user_row, session_active, outbox,
                              sched_last, sched_tick, last_fin, last_photo,
                              elsewhere, reg, buttons, reg_done, wiz >>

\* handle_webapp_data, type workout_set with a non-empty token list, every
\* photo is pulled from the relay.
WorkoutSet ==
    \E n \in 1..MaxTokens, tg \in TgOutcomes :
      \E inps \in [1..n -> PhotoInputs] :
        LET saves == [k \in 1..n |->
                         _save_training_photo(inps[k].answer, inps[k].insert_ok)]
            ws0 == _ws_get(workout_session)
            ws == [ws0 EXCEPT !.results =
                       ws0.results \o [k \in 1..n |-> saves[k].ret]]
            fin == _finalize_workout(user_row, jobs, outbox, UID, ws.expected,
                                     ws.results, tg, Today(now))
        IN  /\ << "webapp" >> \in buttons
            /\ photos_used + n <= MaxPhotos
            /\ photos_used' = photos_used + n
            /\ win' = MarkPhoto(win)
            /\ sets' = sets \o InsertedRows(saves)
            /\ last_fin' = FinRecord("set", fin, user_row, Today(now))
            /\ user_row' = fin.row
            /\ jobs' = fin.jobs
            /\ outbox' = fin.outbox
            /\ workout_session' = IF fin.raised THEN Some(ws) ELSE None
            /\ session_active' = IF fin.raised THEN session_active ELSE FALSE
            /\ UNCHANGED << now, sched_last, sched_tick, last_photo, elsewhere, reg,
                            buttons, reg_done, wiz >>

\* handle_webapp_data, type tz with the zone the user already has: the zone
\* is stored again and the jobs are rebuilt from the database.
TzPayload ==
    LET r == _reschedule_from_db(user_row, jobs, session_active, UID, now)
    IN  /\ << "webapp" >> \in buttons
        /\ jobs' = r.jobs
        /\ session_active' = r.active
        /\ UNCHANGED << now, user_row, workout_session, sets, photos_used,
                        outbox, sched_last, sched_tick, last_fin, win,
                        last_photo, elsewhere, reg, buttons, reg_done, wiz >>

\* deposit_callback, button depwin_repeat of the freeze-complete prompt
depwin_repeat ==
    LET tf == _load_training_form(user_row)
        tf2 == [tf EXCEPT !.deposit = IF tf = EmptyTF THEN Some(0) ELSE @,
                          !.deposit_days = IF tf = EmptyTF THEN Some(7) ELSE @,
                          !.deposit_done_dates = << >>,
                          !.started_key = TRUE,
                          !.deposit_started_at = Some(Today(now))]
    IN  /\ "freeze_complete" \in outbox
        /\ user_row' = UpdateTrainingForm(user_row, tf2)
        /\ UNCHANGED << now, jobs, session_active, workout_session, sets,
                        photos_used, outbox, sched_last, sched_tick, last_fin,
                        win, last_photo, elsewhere, reg, buttons, reg_done, wiz >>

Next ==
    \/ register_start
    \/ RegisterFinish
    \/ start_cb
    \/ mid_cb
    \/ end_cb
    \/ _no_start_job
    \/ DeadlinePasses
    \/ SinglePhotoPullFails
    \/ SinglePhoto
    \/ WorkoutSetPullFails
    \/ WorkoutSet
    \/ TzPayload
    \/ depwin_repeat

Init == InitCommon

Spec == Init /\ [][Next]_vars


\* ------------------------------------------------------------ C1 .. C5
\* C1: a settlement takes the credited branch exactly when the number of
\* verified results is at least expected - 1 for expected >= 3 (expected
\* otherwise); a session always expects 3 shots, so exactly when at least 2
\* results are verified.
C1_Theorem ==
    last_fin # None =>
        LET f == last_fin[1]
        IN  /\ f.credited <=>
                 (f.verified >= IF f.expected >= 3 THEN f.expected - 1
                                ELSE f.expected)
            /\ f.expected = 3
            /\ f.credited <=> (f.verified >= 2)

\* A settlement of three results of which exactly two are verified.
C1_Witness ==
    /\ last_fin # None
    /\ last_fin[1].received = 3
    /\ last_fin[1].verified = 2
    /\ last_fin[1].credited

\* C2 as stated: no settlement runs on fewer than `expected` results.
C2_Original ==
    last_fin # None => last_fin[1].received >= last_fin[1].expected

\* C2, amended: a settlement started by a single-photo submission runs on at
\* least `expected` results; a workout_set submission settles at once on
\* whatever the session holds, which is at least one result.
C2_Theorem ==
    last_fin # None =>
        /\ last_fin[1].via = "single" =>
               last_fin[1].received >= last_fin[1].expected
        /\ last_fin[1].received >= 1

\* The third single photo settles the session.
C2_Witness ==
    /\ last_fin # None
    /\ last_fin[1].via = "single"
    /\ last_fin[1].received = 3
    /\ ~last_fin[1].raised

\* C3 as stated: after a non-credited settlement of a user with a positive,
\* not yet forfeited deposit the record is forfeited with nothing left and
\* the notice has been sent.
C3_Claim ==
    (/\ last_fin # None
     /\ ~last_fin[1].credited
     /\ last_fin[1].deposit_before > 0
     /\ ~last_fin[1].forfeit_before)
        => /\ last_fin[1].forfeit_after
           /\ last_fin[1].left_after = Some(0)
           /\ last_fin[1].notice_tried

\* C4 as stated: a credited settlement with deposit_days > 0 leaves today's
\* date in deposit_done_dates, and deposit_done_dates never holds a date
\* twice.
C4_Claim ==
    /\ (/\ last_fin # None
        /\ last_fin[1].credited
        /\ last_fin[1].days_before > 0)
           => Contains(last_fin[1].dates_after, last_fin[1].today)
    /\ LET dd == _load_training_form(user_row).deposit_done_dates
       IN  \A i, k \in 1..Len(dd) : dd[i] = dd[k] => i = k

\* C5 as stated: when the five minutes after a start callback have passed
\* without a photo, for a user with a positive, not yet forfeited deposit,
\* the deposit is forfeited and the session is inactive.
C5_Claim ==
    (/\ win # None
     /\ win[1].closed
     /\ win[1].eligible
     /\ ~win[1].photo)
        => /\ win[1].forfeited
           /\ ~win[1].active

\* ------------------------------------------------------- C11, C15, C18
\* C11 as stated: a photo result is appended to the session, and a
\* settlement is run, only while session_active is true.
C11_Claim ==
    [][(photos_used' # photos_used \/ last_fin' # last_fin) => session_active]_vars

\* C15 as stated: when the result message of a settlement cannot be sent, a
\* credited settlement still records today's date and a non-credited one
\* still forfeits the deposit.
C15_Claim ==
    (last_fin # None /\ last_fin[1].raised) =>
        /\ (last_fin[1].credited /\ last_fin[1].days_before > 0)
               => Contains(last_fin[1].dates_after, last_fin[1].today)
        /\ (~last_fin[1].credited /\ last_fin[1].deposit_before > 0
                /\ ~last_fin[1].forfeit_before)
               => last_fin[1].forfeit_after

\* C26 as stated: when handle_webapp_data has run a settlement, the session
\* results are empty (the workout session is dropped) and session_active is
\* false.
C26_Claim ==
    [][(last_fin' # last_fin) =>
          (workout_session' = None /\ ~session_active')]_vars

\* SpecPull: the part of Spec around the relay pull: registration, the start
\* of the workout, photos sent one by one (which fill the session and settle
\* it) and the payloads whose pull fails.
NextPull ==
    \/ register_start
    \/ RegisterFinish
    \/ start_cb
    \/ SinglePhotoPullFails
    \/ SinglePhoto
    \/ WorkoutSetPullFails

SpecPull == Init /\ [][NextPull]_vars

\* C27: a failed pull of a single-photo payload or of one token of a
\* workout_set payload leaves the session results, session_active, the
\* stored record and the sets table unchanged and runs no settlement.
C27_Theorem ==
    [][(SinglePhotoPullFails \/ WorkoutSetPullFails) =>
          UNCHANGED << workout_session, session_active, user_row, sets,
                       photos_used, last_fin >>]_vars

\* The first payload of an open window could not be pulled: the session is
\* active and empty, nothing was verified.
C27_Witness ==
    /\ win # None
    /\ win[1].photo
    /\ photos_used = 0
    /\ session_active
    /\ workout_session # None
    /\ sets = << >>

\* C18 as stated: once a settlement has closed the session (the session
\* record is dropped and session_active is false), session_active stays
\* false until a start callback creates the next session record.
C18_Claim ==
    (/\ last_fin # None
     /\ ~last_fin[1].raised
     /\ workout_session = None)
        => ~session_active


\* =========================================================================
\* SpecPhoto: _save_training_photo applied to every vision answer, with the
\* INSERT into sets succeeding or raising.
\* =========================================================================
SavePhoto ==
    \E answers \in [1..MAX_TRIES -> GptAnswers], insert_ok \in BOOLEAN :
        LET call == backoff_on_exception(answers)
            answer == answers[call.attempts]
            save == _save_training_photo(answer, insert_ok)
        IN  /\ photos_used < MaxPhotos
            /\ gpt_call' = Some([answers |-> answers, attempts |-> call.attempts,
                                 raised |-> call.raised, value |-> call.value])
            /\ photos_used' = photos_used + 1
            /\ sets' = sets \o InsertedRows(<< save >>)
            /\ last_photo' = Some([answer |-> answer, insert_ok |-> insert_ok,
                                   ret |-> save.ret, row |-> save.row])
            /\ UNCHANGED << now, jobs, user_row, session_active,
                            workout_session, outbox, sched_last, sched_tick,
                            last_fin, win, reg, buttons, reg_done, wiz, relay,
                            flight, user_data, configured >>

NextPhoto == SavePhoto

SpecPhoto == InitCommon /\ [][NextPhoto]_vars

\* C10: _save_training_photo returns true, and the row it stores carries
\* verified = true, only if the vision call did not fail, reported success
\* and is_home, and the row was inserted; a failed call, success without
\* is_home, or a failed insert give false.
C10_Theorem ==
    last_photo # None =>
        LET p == last_photo[1]
            good == ~p.answer.failed /\ p.answer.success /\ p.answer.is_home
        IN  /\ p.ret => (good /\ p.insert_ok /\ p.row = Some(TRUE))
            /\ p.row = Some(TRUE) => good
            /\ p.answer.failed => ~p.ret
            /\ (p.answer.success /\ ~p.answer.is_home) => ~p.ret
            /\ ~p.insert_ok => (~p.ret /\ p.row = None)
            /\ p.row # None => (Len(sets) > 0 /\ sets[Len(sets)] = p.row[1])

\* A photo judged success and is_home is stored as verified and returned
\* true after one that was judged success but not at home.
C10_Witness ==
    /\ last_photo # None
    /\ last_photo[1].ret
    /\ last_photo[1].answer.is_home
    /\ sets = << FALSE, TRUE >>

\* C14 as stated: when the model call fails with an exception it is made
\* again, up to three calls in all; the first call that succeeds ends the
\* retries.
C14_Claim ==
    gpt_call # None =>
        LET a == gpt_call[1].answers
            good == { k \in 1..MAX_TRIES : ~a[k].failed }
        IN  /\ \A k \in 1..MAX_TRIES :
                   (\A i \in 1..k : a[i].failed) => gpt_call[1].attempts >= Min2(k + 1, MAX_TRIES)
            /\ \A k \in good : gpt_call[1].attempts <= k


\* =========================================================================
\* SpecWizard: the onboarding dialogue, handler by handler.  Inline buttons
\* stay on screen after the dialogue has moved on, so a button of an earlier
\* message can be pressed at any step (at most MaxStale times), and /start
\* restarts a running wizard (at most MaxRestarts times).
\* =========================================================================
WizDays == { "mon", "tue" }
PresetTimes == { << 7, 0 >> }
TypedTimes == { << 7, 0 >>, << 24, 0 >> }
PresetRests == { 30 }
PresetDurations == { 30 }
AdjustSteps == { 0 - 5 }
TypedDurations == { None, Some(4), Some(30), Some(241) }
TypedDays == { None, Some(0), Some(2), Some(91) }
AiDeposits == { 5000 }
TypedDeposits == { None, Some(100) }
TypedAmounts == { None, Some(5000) }
RestTexts ==
    { [form |-> "none", a |-> 0, b |-> 0], [form |-> "mmss", a |-> 0, b |-> 0],
      [form |-> "sec", a |-> 90000, b |-> 0] }

\* _parse_rest_seconds on a text of the form mm:ss, "<n>", "<n> мин", or
\* without digits
_parse_rest_seconds(s) ==
    IF s.form = "mmss" THEN Some(s.a * 60 + s.b)
    ELSE IF s.form = "min" THEN Some(Max2(1, s.a * 60))
    ELSE IF s.form = "sec" THEN Some(Max2(1, s.a))
    ELSE None

\* _parse_duration_minutes on the first number of the text (None: no digits)
_parse_duration_minutes(s) ==
    IF IsNone(s) THEN None
    ELSE IF 5 <= s[1] /\ s[1] <= 240 THEN s
    ELSE None

_clamp_deposit(v) == Max2(DEP_MIN, Min2(v, DEP_MAX))

\* _parse_deposit_from_text on the first number of the text (None: no digits)
_parse_deposit_from_text(s) ==
    IF IsNone(s) THEN _clamp_deposit(5000) ELSE _clamp_deposit(s[1])

DictPut(f, k, v) == [x \in DOMAIN f \cup { k } |-> IF x = k THEN v ELSE f[x]]
DayOrder(S) == SelectSeq(ORDERED_DAYS, LAMBDA d : d \in S)

\* A press of a button of group g; `sent` are the button groups of the
\* reply.
Pressed(g, sent) ==
    /\ reg # None
    /\ g \in buttons
    /\ g \in wiz.latest \/ wiz.stale < MaxStale
    /\ buttons' = buttons \cup sent
    /\ wiz' = [wiz EXCEPT !.stale = IF g \in wiz.latest THEN @ ELSE @ + 1,
                          !.latest = IF sent = {} THEN @ ELSE sent]

\* A text message while the wizard runs; `sent` as above.
Texted(sent) ==
    /\ buttons' = buttons \cup sent
    /\ wiz' = [wiz EXCEPT !.latest = IF sent = {} THEN @ ELSE sent]

WizFrame ==
    UNCHANGED << now, jobs, user_row, session_active, workout_session, sets,
                 photos_used, outbox, sched_last, sched_tick, last_fin, win,
                 last_photo, elsewhere, reg_done >>

\* /start while the wizard runs, or after it has ended without a stored
\* record: register_start clears the wizard state
register_restart ==
    /\ reg # None \/ reg_done # None
    /\ wiz.restarts < MaxRestarts
    /\ ~_already_registered(user_row)
    /\ user_row' = IF IsNone(user_row) THEN Some(NewUserRow) ELSE user_row
    /\ reg' = Some(RegStart)
    /\ buttons' = buttons \cup { << "ob_next" >> }
    /\ wiz' = [wiz EXCEPT !.restarts = @ + 1, !.latest = { << "ob_next" >> }]
    /\ UNCHANGED << now, jobs, session_active, workout_session, sets,
                    photos_used, outbox, sched_last, sched_tick, last_fin,
                    win, last_photo, elsewhere, reg_done >>

\* register_callback, data ob_next: the keyboard of the pressed message is
\* removed (the edit is taken to succeed), screen 2 carries the qa_begin
\* button
cb_ob_next ==
    /\ reg # None
    /\ << "ob_next" >> \in buttons
    /\ << "ob_next" >> \in wiz.latest \/ wiz.stale < MaxStale
    /\ buttons' = (buttons \ { << "ob_next" >> }) \cup { << "qa_begin" >> }
    /\ wiz' = [wiz EXCEPT !.stale = IF << "ob_next" >> \in wiz.latest
                                    THEN @ ELSE @ + 1,
                          !.latest = { << "qa_begin" >> }]
    /\ UNCHANGED reg
    /\ WizFrame

\* register_callback, data qa_begin
cb_qa_begin ==
    /\ Pressed(<< "qa_begin" >>, {})
    /\ reg' = Some([reg[1] EXCEPT !.step = "q1"])
    /\ WizFrame

\* register_text at steps q1, q2, q3
text_questions ==
    /\ reg # None
    /\ reg[1].step \in { "q1", "q2", "q3" }
    /\ \E amount \in TypedAmounts :
         reg' = Some(IF reg[1].step = "q1" THEN [reg[1] EXCEPT !.step = "q2"]
                     ELSE IF reg[1].step = "q2" THEN [reg[1] EXCEPT !.step = "q3"]
                     ELSE [reg[1] EXCEPT !.step = "q_plan",
                              !.deposit = Some(_parse_deposit_from_text(amount))])
    /\ Texted({})
    /\ WizFrame

\* register_text at step q_plan
text_plan ==
    /\ reg # None
    /\ reg[1].step = "q_plan"
    /\ reg' = Some([reg[1] EXCEPT !.step = "pick_days", !.chosen_days = {}])
    /\ Texted({ << "days" >> })
    /\ WizFrame

\* register_callback, data days_toggle:<day>
cb_days_toggle ==
    \E d \in WizDays :
        /\ Pressed(<< "days" >>, {})
        /\ reg' = Some([reg[1] EXCEPT !.chosen_days =
                            IF d \in @ THEN @ \ { d } ELSE @ \cup { d }])
        /\ WizFrame

\* register_callback, data days_clear
cb_days_clear ==
    /\ Pressed(<< "days" >>, {})
    /\ reg' = Some([reg[1] EXCEPT !.chosen_days = {}])
    /\ WizFrame

\* register_callback, data days_done
cb_days_done ==
    LET chosen == DayOrder(reg[1].chosen_days)
    IN  /\ reg # None
        /\ IF chosen = << >>
           THEN /\ Pressed(<< "days" >>, {})
                /\ UNCHANGED reg
           ELSE /\ Pressed(<< "days" >>, { << "time", Head(chosen) >> })
                /\ reg' = Some([reg[1] EXCEPT !.schedule_map_time = << >>,
                                              !.pending_days_time = Tail(chosen),
                                              !.step = "times_loop",
                                              !.temp_day_en = Some(Head(chosen))])
        /\ WizFrame

\* The wizard state after the time of `day` has been recorded, and the
\* keyboard of the reply.
AfterTime(st, day, hhmm) ==
    LET st1 == [st EXCEPT !.schedule_map_time = DictPut(@, day, hhmm)]
    IN  IF st.pending_days_time # << >>
        THEN [st1 EXCEPT !.temp_day_en = Some(Head(st.pending_days_time)),
                         !.pending_days_time = Tail(st.pending_days_time)]
        ELSE [st1 EXCEPT !.temp_day_en = None, !.step = "ask_rest_inline"]

SentAfterTime(st) ==
    IF st.pending_days_time # << >>
    THEN { << "time", Head(st.pending_days_time) >> }
    ELSE { << "rest" >> }

\* register_callback, data time_pick:<day>:<hh:mm>
cb_time_pick ==
    \E d \in WizDays, hhmm \in PresetTimes :
        /\ reg # None
        /\ Pressed(<< "time", d >>, SentAfterTime(reg[1]))
        /\ reg' = Some(AfterTime(reg[1], d, hhmm))
        /\ WizFrame

\* register_callback, data time_custom:<day>
cb_time_custom ==
    \E d \in WizDays :
        /\ Pressed(<< "time", d >>, {})
        /\ reg' = Some([reg[1] EXCEPT !.temp_day_en = Some(d),
                                      !.step = "enter_time_for_day"])
        /\ WizFrame

\* register_text with a day awaiting its time (steps enter_time_for_day,
\* times_loop)
text_time ==
    \E typed \in TypedTimes :
        LET t == _parse_time_hhmm(typed)
        IN  /\ reg # None
            /\ reg[1].temp_day_en # None
            /\ reg[1].step \in { "enter_time_for_day", "times_loop" }
            /\ IF IsNone(t)
               THEN /\ UNCHANGED reg
                    /\ Texted({})
               ELSE /\ reg' = Some(AfterTime(reg[1], reg[1].temp_day_en[1],
                                             strftime(t[1])))
                    /\ Texted(SentAfterTime(reg[1]))
            /\ WizFrame

\* register_callback, data rest:<seconds>
cb_rest ==
    \E v \in PresetRests :
        /\ Pressed(<< "rest" >>, { << "dur_mode" >> })
        /\ reg' = Some([reg[1] EXCEPT !.rest_seconds = Some(v),
                                      !.step = "ask_duration_mode"])
        /\ WizFrame

\* register_callback, data rest_custom
cb_rest_custom ==
    /\ Pressed(<< "rest" >>, {})
    /\ reg' = Some([reg[1] EXCEPT !.step = "ask_rest"])
    /\ WizFrame

\* register_text at step ask_rest
text_rest ==
    \E typed \in RestTexts :
        LET rest_sec == _parse_rest_seconds(typed)
            bad == IF IsNone(rest_sec) THEN TRUE ELSE rest_sec[1] > 24 * 60 * 60
        IN  /\ reg # None
            /\ reg[1].step = "ask_rest"
            /\ IF bad
               THEN /\ UNCHANGED reg
                    /\ Texted({})
               ELSE /\ reg' = Some([reg[1] EXCEPT !.rest_seconds = rest_sec,
                                                  !.step = "ask_duration_mode"])
                    /\ Texted({ << "dur_mode" >> })
            /\ WizFrame

\* register_callback, data dur_same
cb_dur_same ==
    /\ Pressed(<< "dur_mode" >>, { << "dur_common" >> })
    /\ reg' = Some([reg[1] EXCEPT
                        !.dur_mode = "same",
                        !.duration_common_min = Some(OrInt(@, DEFAULT_DURATION)),
                        !.step = "ask_duration_common_inline"])
    /\ WizFrame

\* register_callback, data dur_diff; with no day in schedule_map_time the
\* handler raises at pending.pop(0), after the state has been written and
\* before anything is sent
cb_dur_diff ==
    LET pending == DayOrder(DOMAIN reg[1].schedule_map_time)
        st1 == [reg[1] EXCEPT !.dur_mode = "per_day",
                              !.step = "ask_duration_for_day_inline"]
    IN  /\ reg # None
        /\ IF pending = << >>
           THEN /\ Pressed(<< "dur_mode" >>, {})
                /\ reg' = Some([st1 EXCEPT !.pending_days_dur = << >>])
           ELSE /\ Pressed(<< "dur_mode" >>, { << "dur_pd", Head(pending) >> })
                /\ reg' = Some([st1 EXCEPT !.pending_days_dur = Tail(pending),
                                           !.temp_day_en = Some(Head(pending))])
        /\ WizFrame

\* _auto_deposit_and_finish: the recommendation becomes the deposit
AutoDeposit(st, dep) == [st EXCEPT !.deposit = Some(dep), !.step = "deposit_choice"]

\* register_callback, data dur_common_set:<minutes>
cb_dur_common_set ==
    \E v \in PresetDurations :
        /\ Pressed(<< "dur_common" >>, {})
        /\ reg' = Some([reg[1] EXCEPT !.duration_common_min =
                            IF v # OrInt(@, DEFAULT_DURATION) THEN Some(v) ELSE @])
        /\ WizFrame

\* Mutant of Adjusted: the adjusted duration is not clamped.
Adjusted_unclamped(cur, delta) == cur + delta

\* register_callback, dur_common_adj: v = max(5, min(240, cur + delta))
Adjusted(cur, delta) == Max2(5, Min2(240, cur + delta))

\* register_callback, data dur_common_adj:<delta>
cb_dur_common_adj ==
    \E delta \in AdjustSteps :
        LET cur == OrInt(reg[1].duration_common_min, DEFAULT_DURATION)
            v == Adjusted(cur, delta)
        IN  /\ reg # None
            /\ << "dur_common" >> \in buttons
            /\ << "dur_common" >> \in wiz.latest \/ wiz.stale < MaxStale
            /\ wiz.adjusts < MaxAdjusts
            /\ reg' = Some([reg[1] EXCEPT !.duration_common_min =
                                IF v # cur THEN Some(v) ELSE @])
            /\ wiz' = [wiz EXCEPT !.adjusts = @ + 1,
                                  !.stale = IF << "dur_common" >> \in wiz.latest
                                            THEN @ ELSE @ + 1]
            /\ UNCHANGED buttons
            /\ WizFrame

\* register_callback, data dur_common_custom
cb_dur_common_custom ==
    /\ Pressed(<< "dur_common" >>, {})
    /\ reg' = Some([reg[1] EXCEPT !.step = "ask_duration_common"])
    /\ WizFrame

\* register_callback, data dur_common_done
cb_dur_common_done ==
    \E dep \in AiDeposits :
        /\ Pressed(<< "dur_common" >>, { << "dep" >> })
        /\ reg' = Some(AutoDeposit(reg[1], _clamp_deposit(dep)))
        /\ WizFrame

\* register_text at step ask_duration_common
text_duration_common ==
    \E typed \in TypedDurations, dep \in AiDeposits :
        LET dur == _parse_duration_minutes(typed)
        IN  /\ reg # None
            /\ reg[1].step = "ask_duration_common"
            /\ IF IsNone(dur)
               THEN /\ UNCHANGED reg
                    /\ Texted({})
               ELSE /\ reg' = Some(AutoDeposit(
                                [reg[1] EXCEPT !.duration_common_min = dur],
                                _clamp_deposit(dep)))
                    /\ Texted({ << "dep" >> })
            /\ WizFrame

\* The wizard state after the duration of `day` has been recorded
AfterDuration(st, day, v, dep) ==
    LET st1 == [st EXCEPT !.schedule_map_duration = DictPut(@, day, v)]
    IN  IF st.pending_days_dur # << >>
        THEN [st1 EXCEPT !.temp_day_en = Some(Head(st.pending_days_dur)),
                         !.pending_days_dur = Tail(st.pending_days_dur)]
        ELSE AutoDeposit(st1, dep)

SentAfterDuration(st) ==
    IF st.pending_days_dur # << >>
    THEN { << "dur_pd", Head(st.pending_days_dur) >> }
    ELSE { << "dep" >> }

\* register_callback, data dur_pd_set:<day>:<minutes>
cb_dur_pd_set ==
    \E d \in WizDays, v \in PresetDurations, dep \in AiDeposits :
        /\ reg # None
        /\ Pressed(<< "dur_pd", d >>, SentAfterDuration(reg[1]))
        /\ reg' = Some(AfterDuration(reg[1], d, v, _clamp_deposit(dep)))
        /\ WizFrame

\* register_callback, data dur_pd_custom:<day>
cb_dur_pd_custom ==
    \E d \in WizDays :
        /\ Pressed(<< "dur_pd", d >>, {})
        /\ reg' = Some([reg[1] EXCEPT !.temp_day_en = Some(d),
                                      !.step = "ask_duration_for_day_custom"])
        /\ WizFrame

\* register_text at step ask_duration_for_day_custom with a day awaiting
\* its duration
text_duration_day ==
    \E typed \in TypedDurations, dep \in AiDeposits :
        LET dur == _parse_duration_minutes(typed)
            st0 == [reg[1] EXCEPT !.temp_day_en = None]
        IN  /\ reg # None
            /\ reg[1].step = "ask_duration_for_day_custom"
            /\ reg[1].temp_day_en # None
            /\ IF IsNone(dur)
               THEN /\ UNCHANGED reg
                    /\ Texted({})
               ELSE /\ reg' = Some(AfterDuration(st0, reg[1].temp_day_en[1],
                                                 dur[1], _clamp_deposit(dep)))
                    /\ Texted(SentAfterDuration(reg[1]))
            /\ WizFrame

\* register_callback, data dep_ok
cb_dep_ok ==
    /\ Pressed(<< "dep" >>, {})
    /\ reg' = Some([reg[1] EXCEPT !.step = "ask_deposit_days"])
    /\ WizFrame

\* register_callback, data dep_custom
cb_dep_custom ==
    /\ Pressed(<< "dep" >>, {})
    /\ reg' = Some([reg[1] EXCEPT !.step = "ask_deposit_custom"])
    /\ WizFrame

\* register_text at step ask_deposit_custom
text_deposit_custom ==
    \E typed \in TypedDeposits :
        /\ reg # None
        /\ reg[1].step = "ask_deposit_custom"
        /\ IF IsNone(typed)
           THEN UNCHANGED reg
           ELSE reg' = Some([reg[1] EXCEPT
                                !.deposit = Some(_clamp_deposit(typed[1])),
                                !.step = "ask_deposit_days",
                                !.deposit_started_at =
                                    IF IsNone(@) THEN Some(Today(now)) ELSE @])
        /\ Texted({})
        /\ WizFrame

\* register_text at step ask_deposit_days: a number of days outside 1..90
\* (or no number) is asked again; otherwise _reg_finish,
\* _persist_onboarding_schedule_per_day, the wizard state is dropped and the
\* main menu is sent.
text_deposit_days ==
    \E typed \in TypedDays :
        LET ok == IF IsNone(typed) THEN FALSE
                  ELSE 1 <= typed[1] /\ typed[1] <= 90
            st == [reg[1] EXCEPT !.deposit_days = typed]
            p == _persist_onboarding_schedule_per_day(user_row, jobs, UID, st, now)
        IN  /\ reg # None
            /\ reg[1].step = "ask_deposit_days"
            /\ Texted({})
            /\ IF ~ok
               THEN UNCHANGED << reg, user_row, jobs, reg_done >>
               ELSE /\ user_row' = p.row
                    /\ jobs' = p.jobs
                    /\ reg' = None
                    /\ reg_done' = Some([saved |-> p.saved, dur_mode |-> st.dur_mode])
            /\ UNCHANGED << now, session_active, workout_session, sets,
                            photos_used, outbox, sched_last, sched_tick,
                            last_fin, win, last_photo, elsewhere >>

NextWizard ==
    \/ register_start
    \/ register_restart
    \/ cb_ob_next
    \/ cb_qa_begin
    \/ text_questions
    \/ text_plan
    \/ cb_days_toggle
    \/ cb_days_clear
    \/ cb_days_done
    \/ cb_time_pick
    \/ cb_time_custom
    \/ text_time
    \/ cb_rest
    \/ cb_rest_custom
    \/ text_rest
    \/ cb_dur_same
    \/ cb_dur_diff
    \/ cb_dur_common_set
    \/ cb_dur_common_adj
    \/ cb_dur_common_custom
    \/ cb_dur_common_done
    \/ text_duration_common
    \/ cb_dur_pd_set
    \/ cb_dur_pd_custom
    \/ text_duration_day
    \/ cb_dep_ok
    \/ cb_dep_custom
    \/ text_deposit_custom
    \/ text_deposit_days

SpecWizard == InitCommon /\ [][NextWizard]_vars

\* The days of the times loop: those that have a time, the one that is asked
\* and those still pending.
TimesLoopDays(st) ==
    DOMAIN st.schedule_map_time
        \cup { st.pending_days_time[k] : k \in 1..Len(st.pending_days_time) }
        \cup (IF st.temp_day_en = None THEN {} ELSE { st.temp_day_en[1] })

\* C28: when a time button or a typed time moves the wizard from the times
\* loop (entered by days_done with the chosen days) to ask_rest_inline,
\* schedule_map_time holds a time for every chosen day and for no other day.
C28_Claim ==
    [][(/\ reg # None
        /\ reg' # None
        /\ reg[1].step \in { "times_loop", "enter_time_for_day" }
        /\ reg[1].chosen_days = TimesLoopDays(reg[1])
        /\ reg'[1].step = "ask_rest_inline")
          => DOMAIN reg'[1].schedule_map_time = reg'[1].chosen_days]_vars

\* ------------------------------------------------------------ C8 and C9
\* The record the wizard has stored for the user.
StoredForm == _load_training_form(user_row)

\* C8 as stated: a record written by the wizard has a non-empty
\* per_day_time, a per_day_duration over the same days, a rest interval of
\* at least one second, a deposit amount and a number of deposit days; in
\* "same" mode every per-day duration equals the common duration.
C8_Claim ==
    (reg_done # None /\ reg_done[1].saved /\ reg = None) =>
        /\ StoredForm.per_day_time # << >>
        /\ DOMAIN StoredForm.per_day_duration = DOMAIN StoredForm.per_day_time
        /\ user_row[1].rest_seconds # None
        /\ user_row[1].rest_seconds[1] >= 1
        /\ StoredForm.deposit # None
        /\ StoredForm.deposit_days # None
        /\ reg_done[1].dur_mode = "same" =>
               /\ user_row[1].workout_duration # None
               /\ \A d \in DOMAIN StoredForm.per_day_duration :
                      StoredForm.per_day_duration[d] = user_row[1].workout_duration[1]

\* C9 as stated: when the wizard has ended, the record is stored with a
\* non-empty schedule and the start, mid and end jobs of every scheduled day
\* are registered.
C9_Claim ==
    (reg_done # None /\ reg = None) =>
        /\ reg_done[1].saved
        /\ StoredForm.per_day_time # << >>
        /\ Len(MyJobs) = 3 * Cardinality(DOMAIN StoredForm.per_day_time)


\* =========================================================================
\* SpecRelay: the upload relay of server.py.  Requests are coroutines of one
\* event loop: each action runs a request from one await to the next.  The
\* /upload requests carry valid initData.
\* =========================================================================
UploadBodies == { [i \in 1..n |-> i] : n \in 0..MaxBytes }
TokenIds == 1..MaxUploads

Take(seq, n) == SubSeq(seq, 1, Min2(n, Len(seq)))
Drop(seq, n) == SubSeq(seq, Min2(n, Len(seq)) + 1, Len(seq))
DictDel(f, k) == [x \in DOMAIN f \ { k } |-> f[x]]

\* Mutant of WriteChunk: every chunk is written at the start of the file.
WriteChunk_rewind(file, chunk) == chunk

\* await f.write(chunk) on the file opened with "wb"
WriteChunk(file, chunk) == file \o chunk

\* Mutant of TokenPop: the token is looked up and stays in the map.
TokenPop_get(T, token) == T

\* TOKENS.pop(token, None): the map afterwards
TokenPop(T, token) == IF token \in DOMAIN T THEN DictDel(T, token) ELSE T

RelayFrame ==
    UNCHANGED << now, jobs, user_row, session_active, workout_session, sets,
                 photos_used, outbox, sched_last, sched_tick, last_fin, win,
                 last_photo, reg, buttons, reg_done, wiz, gpt_call, flight,
                 user_data, configured >>

\* upload: token = uuid4(), the file <token>.jpg is opened for writing
upload_open ==
    \E body \in UploadBodies :
        LET token == relay.issued + 1
        IN  /\ relay.issued < MaxUploads
            /\ relay' = [relay EXCEPT
                            !.issued = token,
                            !.files = DictPut(@, token, << >>),
                            !.uploads = DictPut(@, token, body),
                            !.sent = DictPut(@, token, body)]
            /\ RelayFrame

\* upload: one pass of the loop, chunk = await photo.read(1 << 20); an empty
\* chunk ends the loop, the file is closed and the token is entered into
\* TOKENS
upload_chunk ==
    \E token \in DOMAIN relay.uploads :
        LET chunk == Take(relay.uploads[token], ChunkBytes)
        IN  /\ relay' =
                 IF chunk = << >>
                 THEN [relay EXCEPT
                          !.uploads = DictDel(@, token),
                          !.TOKENS = DictPut(@, token, [path |-> token, expired |-> FALSE])]
                 ELSE [relay EXCEPT
                          !.uploads[token] = Drop(@, ChunkBytes),
                          !.files[token] = WriteChunk(@, chunk)]
            /\ RelayFrame

\* More than TTL seconds pass after the upload of a token.
token_expires ==
    \E token \in DOMAIN relay.TOKENS :
        /\ ~relay.TOKENS[token].expired
        /\ relay' = [relay EXCEPT !.TOKENS[token].expired = TRUE]
        /\ RelayFrame

\* pull, up to the first await: the token is popped; an unknown token and an
\* expired one (whose file is removed) give 404, a missing file 410,
\* otherwise the file is opened
pull_begin ==
    \E token \in TokenIds :
        LET req == Len(relay.pulls) + 1
            known == token \in DOMAIN relay.TOKENS
            item == relay.TOKENS[token]
            T == TokenPop(relay.TOKENS, token)
            answer(status) == [token |-> token, pc |-> "done", status |-> status,
                               content |-> << >>]
        IN  /\ req <= MaxPulls
            /\ relay' =
                 IF ~known
                 THEN [relay EXCEPT !.pulls = Append(@, answer(404))]
                 ELSE IF item.expired
                 THEN [relay EXCEPT !.TOKENS = T,
                                    !.files = DictDel(@, item.path),
                                    !.pulls = Append(@, answer(404))]
                 ELSE IF item.path \notin DOMAIN relay.files
                 THEN [relay EXCEPT !.TOKENS = T,
                                    !.pulls = Append(@, answer(410))]
                 ELSE [relay EXCEPT !.TOKENS = T,
                                    !.pulls = Append(@,
                                        [token |-> token, pc |-> "read",
                                         status |-> 0, content |-> << >>])]
            /\ RelayFrame

\* pull: content = await f.read()
pull_read ==
    \E req \in DOMAIN relay.pulls :
        /\ relay.pulls[req].pc = "read"
        /\ relay' = [relay EXCEPT
                        !.pulls[req].pc = "remove",
                        !.pulls[req].content =
                            IF relay.pulls[req].token \in DOMAIN relay.files
                            THEN relay.files[relay.pulls[req].token]
                            ELSE << >>]
        /\ RelayFrame

\* pull: os.remove(path), then the response with the content
pull_respond ==
    \E req \in DOMAIN relay.pulls :
        /\ relay.pulls[req].pc = "remove"
        /\ relay' = [relay EXCEPT
                        !.pulls[req].pc = "done",
                        !.pulls[req].status = 200,
                        !.files = DictDel(@, relay.pulls[req].token)]
        /\ RelayFrame

NextRelay ==
    \/ upload_open
    \/ upload_chunk
    \/ token_expires
    \/ pull_begin
    \/ pull_read
    \/ pull_respond

SpecRelay == InitCommon /\ [][NextRelay]_vars

\* The finished /pull requests for a token, and those that returned the photo.
Answered(token) ==
    { r \in DOMAIN relay.pulls :
        relay.pulls[r].token = token /\ relay.pulls[r].pc = "done" }
Served(token) == { r \in Answered(token) : relay.pulls[r].status = 200 }

\* C12: of the /pull requests for one token at most one returns the photo and
\* every other finished one returns 404; once the photo was returned the
\* token is not in TOKENS and its file is deleted.
C12_Theorem ==
    \A token \in TokenIds :
        /\ Cardinality(Served(token)) <= 1
        /\ \A r \in Answered(token) \ Served(token) : relay.pulls[r].status = 404
        /\ Served(token) # {} =>
               (token \notin DOMAIN relay.TOKENS /\ token \notin DOMAIN relay.files)

\* A token was pulled twice: the first request returned the photo, the
\* second was answered 404.
C12_Witness ==
    /\ Len(relay.pulls) = 2
    /\ \A r \in 1..2 : relay.pulls[r].token = 1 /\ relay.pulls[r].pc = "done"
    /\ relay.pulls[1].status = 200
    /\ relay.pulls[2].status = 404

\* C13: the content a /pull returns with status 200 is the content of the
\* /upload request that returned the token.
C13_Theorem ==
    \A r \in DOMAIN relay.pulls :
        (relay.pulls[r].pc = "done" /\ relay.pulls[r].status = 200) =>
            relay.pulls[r].content = relay.sent[relay.pulls[r].token]

\* A photo of more than one chunk was returned by a pull.
C13_Witness ==
    \E r \in DOMAIN relay.pulls :
        /\ relay.pulls[r].pc = "done"
        /\ relay.pulls[r].status = 200
        /\ Len(relay.pulls[r].content) > ChunkBytes


\* =========================================================================
\* SpecRace: the first capture window of a registered user, with the photo
\* handler and the no-start job as coroutines of one event loop.  Updates
\* are handled one at a time (main.py builds the application without
\* concurrent_updates); a job of the queue runs whenever it is due, also
\* while a handler waits at an await.  Each action runs one coroutine from
\* one await to the next.
\* =========================================================================
RaceFrame ==
    UNCHANGED << sched_last, sched_tick, last_fin, last_photo, reg, reg_done,
                 wiz, gpt_call, relay, user_data, configured >>

\* A suspended coroutine: where it waits, the payload kind, the photos still
\* to verify, the verdict, and its local copy of training_form.
Suspended(pc, kind, todo) ==
    [pc |-> pc, kind |-> kind, todo |-> todo, credited |-> FALSE,
     complete |-> FALSE, tf |-> EmptyTF]

\* handle_webapp_data, single_photo_uploaded or workout_set: the photos are
\* pulled from the relay (a workout_set then takes the session with _ws_get)
\* and the handler waits for _save_training_photo
photo_pull ==
    \E kind \in { "single", "set" }, n \in 1..MaxTokens :
        /\ << "webapp" >> \in buttons
        /\ flight.photo = None
        /\ kind = "single" => n = 1
        /\ photos_used + n <= MaxPhotos
        /\ photos_used' = photos_used + n
        /\ win' = MarkPhoto(win)
        /\ workout_session' = IF kind = "set" THEN Some(_ws_get(workout_session))
                               ELSE workout_session
        /\ flight' = [flight EXCEPT !.photo = Some(Suspended("verify", kind, n))]
        /\ UNCHANGED << now, jobs, user_row, session_active, sets, outbox, buttons >>
        /\ RaceFrame

\* _save_training_photo returns: the result is appended; a single photo
\* removes the no-start job and either settles or is acknowledged, the last
\* photo of a set settles.  _finalize_workout computes the verdict and waits
\* for the send of the result message.
photo_verified ==
    /\ flight.photo # None
    /\ flight.photo[1].pc = "verify"
    /\ \E inp \in PhotoInputs :
         LET f == flight.photo[1]
             save == _save_training_photo(inp.answer, inp.insert_ok)
             ws0 == _ws_get(workout_session)
             ws == [ws0 EXCEPT !.results = Append(ws0.results, save.ret)]
             settle == IF f.kind = "single" THEN SettleNow(ws) ELSE f.todo = 1
         IN  /\ sets' = sets \o InsertedRows(<< save >>)
             /\ workout_session' = Some(ws)
             /\ jobs' = IF f.kind = "single"
                         THEN RemoveNamed(jobs, UID, << "nostart" >>) ELSE jobs
             /\ flight' = [flight EXCEPT !.photo =
                    IF settle
                    THEN Some([f EXCEPT
                                 !.pc = "result", !.todo = 0,
                                 !.credited = CountTrue(ws.results) >= Threshold(ws.expected)])
                    ELSE IF f.kind = "single" THEN None
                    ELSE Some([f EXCEPT !.todo = f.todo - 1])]
    /\ UNCHANGED << now, user_row, session_active, photos_used, outbox, win, buttons >>
    /\ RaceFrame

\* _finalize_workout: the result message is sent; a failed send raises out
\* of the handler, a credited workout cancels the timers and reads the
\* record, a workout not credited goes on to _forfeit_deposit
settle_result ==
    /\ flight.photo # None
    /\ flight.photo[1].pc = "result"
    /\ \E result_ok \in BOOLEAN :
         LET f == flight.photo[1]
         IN  /\ jobs' = IF result_ok /\ f.credited THEN _cancel_timers(jobs, UID)
                         ELSE jobs
             /\ flight' = [flight EXCEPT !.photo =
                    IF ~result_ok THEN None
                    ELSE IF f.credited THEN Some([f EXCEPT !.pc = "credit_select"])
                    ELSE Some([f EXCEPT !.pc = "forfeit_select"])]
    /\ UNCHANGED << now, user_row, session_active, workout_session, sets,
                    photos_used, outbox, win, buttons >>
    /\ RaceFrame

\* _finalize_workout, credited: SELECT training_form, the progress is
\* computed on the copy
credit_select ==
    /\ flight.photo # None
    /\ flight.photo[1].pc = "credit_select"
    /\ LET f == flight.photo[1]
           prog == CreditProgress(user_row, Today(now))
       IN  flight' = [flight EXCEPT !.photo =
               IF OrInt(_load_training_form(user_row).deposit_days, 0) > 0
               THEN Some([f EXCEPT !.pc = "credit_update",
                                   !.tf = _load_training_form(prog.row),
                                   !.complete = prog.complete])
               ELSE Some([f EXCEPT !.pc = "return"])]
    /\ UNCHANGED << now, jobs, user_row, session_active, workout_session, sets,
                    photos_used, outbox, win, buttons >>
    /\ RaceFrame

\* _finalize_workout, credited: UPDATE users SET training_form with the
\* copy, then the freeze-complete prompt when the last day is done
credit_update ==
    /\ flight.photo # None
    /\ flight.photo[1].pc = "credit_update"
    /\ \E prompt_ok \in BOOLEAN :
         LET f == flight.photo[1]
         IN  /\ user_row' = UpdateTrainingForm(user_row, f.tf)
             /\ outbox' = outbox \cup (IF f.complete /\ prompt_ok
                                       THEN { "freeze_complete" } ELSE {})
             /\ flight' = [flight EXCEPT !.photo = Some([f EXCEPT !.pc = "return"])]
    /\ UNCHANGED << now, jobs, session_active, workout_session, sets,
                    photos_used, win, buttons >>
    /\ RaceFrame

\* _finalize_workout returned: a workout not credited cancels the timers;
\* the handler resets the workout session and clears session_active
photo_return ==
    /\ flight.photo # None
    /\ flight.photo[1].pc = "return"
    /\ jobs' = IF flight.photo[1].credited THEN jobs ELSE _cancel_timers(jobs, UID)
    /\ workout_session' = None
    /\ session_active' = FALSE
    /\ flight' = [flight EXCEPT !.photo = None]
    /\ UNCHANGED << now, user_row, sets, photos_used, outbox, win, buttons >>
    /\ RaceFrame

\* _no_start_job starts, five minutes after start_cb: it takes the session
\* with _ws_get and, with no result and the session active, enters
\* _forfeit_deposit
no_start_job_enter ==
    \E i \in Indices(jobs) :
        LET started == Len(_ws_get(workout_session).results) > 0
            hit == ~started /\ session_active
        IN  /\ OnceDue(i)
            /\ jobs[i].name = << "nostart" >>
            /\ flight.nostart = None
            /\ now' = jobs[i].next
            /\ jobs' = RemoveAt(jobs, i)
            /\ workout_session' = Some(_ws_get(workout_session))
            /\ win' = CloseWindow(win, user_row, session_active)
            /\ flight' = [flight EXCEPT !.nostart =
                   IF hit THEN Some(Suspended("forfeit_select", "nostart", 0))
                   ELSE None]
            /\ UNCHANGED << user_row, session_active, sets, photos_used, outbox,
                            buttons >>
            /\ RaceFrame

\* _no_start_job after _forfeit_deposit: session_active is cleared
nostart_return ==
    /\ flight.nostart # None
    /\ flight.nostart[1].pc = "return"
    /\ session_active' = FALSE
    /\ flight' = [flight EXCEPT !.nostart = None]
    /\ UNCHANGED << now, jobs, user_row, workout_session, sets, photos_used,
                    outbox, win, buttons >>
    /\ RaceFrame

Callers == { "photo", "nostart" }
Waiting(who, pc) == flight[who] # None /\ flight[who][1].pc = pc

\* _forfeit_deposit: SELECT training_form; the call returns when the record
\* is marked forfeited or holds no deposit
forfeit_select ==
    \E who \in Callers :
        /\ Waiting(who, "forfeit_select")
        /\ LET tf == _load_training_form(user_row)
               stop == tf.deposit_forfeit \/ OrInt(tf.deposit, 0) <= 0
           IN  flight' = [flight EXCEPT ![who] =
                   Some([flight[who][1] EXCEPT
                           !.pc = IF stop THEN "return" ELSE "forfeit_update",
                           !.tf = tf])]
        /\ UNCHANGED << now, jobs, user_row, session_active, workout_session,
                        sets, photos_used, outbox, win, buttons >>
        /\ RaceFrame

\* _forfeit_deposit: the copy is marked forfeited and written with UPDATE
forfeit_update ==
    \E who \in Callers :
        /\ Waiting(who, "forfeit_update")
        /\ user_row' = UpdateTrainingForm(user_row,
                            [flight[who][1].tf EXCEPT !.deposit_forfeit = TRUE,
                                                      !.deposit_left = Some(0)])
        /\ flight' = [flight EXCEPT
                         ![who] = Some([flight[who][1] EXCEPT !.pc = "forfeit_notice"]),
                         !.writes = flight.writes + 1,
                         !.nostart_wrote = flight.nostart_wrote \/ who = "nostart"]
        /\ UNCHANGED << now, jobs, session_active, workout_session, sets,
                        photos_used, outbox, win, buttons >>
        /\ RaceFrame

\* _forfeit_deposit: the notice is sent; a failed send is swallowed
forfeit_notice ==
    \E who \in Callers, notice_ok \in BOOLEAN :
        /\ Waiting(who, "forfeit_notice")
        /\ flight' = [flight EXCEPT
                         ![who] = Some([flight[who][1] EXCEPT !.pc = "return"]),
                         !.notices = flight.notices + (IF notice_ok THEN 1 ELSE 0)]
        /\ UNCHANGED << now, jobs, user_row, session_active, workout_session,
                        sets, photos_used, outbox, win, buttons >>
        /\ RaceFrame

\* _make_keyboard as _current_keyboard calls it: the web-app button is on the
\* reply keyboard only while the session is active
_current_keyboard(active) == IF active THEN { << "webapp" >> } ELSE {}

\* Mutant of profile_state: the session line is read through _ws_get.
profile_state_ws_get(row, J, active, ws, send_ok) ==
    [row |-> row, jobs |-> J, active |-> active, ws |-> Some(_ws_get(ws)),
     message |-> IF send_ok THEN { "profile" } ELSE {},
     keyboard |-> IF send_ok THEN _current_keyboard(active) ELSE {}]

\* profile: the stored record, the jobs, the session flag and the workout
\* session after the call, the message and the reply keyboard it sends (a
\* missing row gets the "profile not found" reply with the idle keyboard)
profile_state(row, J, active, ws, send_ok) ==
    [row |-> row, jobs |-> J, active |-> active, ws |-> ws,
     message |-> IF ~send_ok THEN {}
                 ELSE IF IsNone(row) THEN { "profile_missing" } ELSE { "profile" },
     keyboard |-> IF send_ok /\ ~IsNone(row) THEN _current_keyboard(active) ELSE {}]

\* /profile or the text "профиль", handled between two other updates
profile ==
    \E send_ok \in BOOLEAN :
        LET p == profile_state(user_row, jobs, session_active, workout_session, send_ok)
        IN  /\ flight.photo = None
            /\ user_row' = p.row
            /\ jobs' = p.jobs
            /\ session_active' = p.active
            /\ workout_session' = p.ws
            /\ outbox' = outbox \cup p.message
            /\ buttons' = buttons \cup p.keyboard
            /\ UNCHANGED << now, sets, photos_used, win, flight >>
            /\ RaceFrame

NextRace ==
    \/ register_start
    \/ RegisterFinish
    \/ start_cb
    \/ photo_pull
    \/ photo_verified
    \/ settle_result
    \/ credit_select
    \/ credit_update
    \/ photo_return
    \/ no_start_job_enter
    \/ nostart_return
    \/ forfeit_select
    \/ forfeit_update
    \/ forfeit_notice
    \/ profile

SpecRace == InitCommon /\ [][NextRace]_vars

\* C16: a profile call changes neither the stored record, nor the jobs, nor
\* session_active, nor the workout session.
C16_Theorem ==
    [][profile => UNCHANGED << user_row, jobs, session_active, workout_session >>]_vars

\* The profile was shown in the middle of a workout: the session is active,
\* one photo is in, the daily jobs are queued.
C16_Witness ==
    /\ "profile" \in outbox
    /\ session_active
    /\ workout_session # None
    /\ Len(_ws_get(workout_session).results) = 1
    /\ jobs # << >>

\* C19: when the first photo was submitted before the no-start job fired,
\* the no-start job does not forfeit the deposit.
C19_Claim ==
    (win # None /\ win[1].photo) => ~flight.nostart_wrote

\* C21: once _forfeit_deposit has written deposit_forfeit = true, the stored
\* record keeps deposit_forfeit = true (no restart and no deposit edit happens
\* in the window), also when a credited settlement wrote the record at the
\* same time.
C21_Claim ==
    flight.writes > 0 => _load_training_form(user_row).deposit_forfeit

\* The fields of the stored record that a credited settlement has no reason
\* to touch: the deposit, its length, what is left of it, the forfeiture
\* flag and the schedule.
DepositTerms(row) ==
    LET tf == _load_training_form(row)
    IN  << tf.deposit, tf.deposit_days, tf.deposit_left, tf.deposit_forfeit,
           tf.per_day_time, tf.per_day_duration >>

\* C24: the write of a credited settlement changes only deposit_started_at
\* and deposit_done_dates of the stored record: deposit, deposit_days,
\* deposit_left, deposit_forfeit and the schedule stay as they were stored.
C24_Claim ==
    [][credit_update => DepositTerms(user_row') = DepositTerms(user_row)]_vars

\* C20: within the capture window _forfeit_deposit writes the forfeiture at
\* most once and delivers at most one notice.
C20_Claim ==
    flight.writes <= 1 /\ flight.notices <= 1


\* =========================================================================
\* SpecConfig: registration, the timed callbacks and the workouts sent as
\* workout_set payloads, the reminders dialogue of handle_text (opened with
\* the button "change schedule" of the freeze-complete prompt), one restart
\* of the process and the resynchronisation of the jobs from the database.
\* =========================================================================
ConfigFrame ==
    UNCHANGED << sets, photos_used, outbox, sched_last, sched_tick, last_fin,
                 win, last_photo, buttons, reg_done, wiz, gpt_call, relay,
                 flight, configured >>

\* Texts typed at the days step, as their words: day names, other words,
\* the empty list for "без расписания".
ReminderDayTexts ==
    { << >>, << "tue" >>, << "tue", "soon", "tue" >>, << "soon" >> }
ReminderTimeTexts == { << 19, 30 >>, << 24, 0 >> }
ReminderDurationTexts == { None, Some(4), Some(30) }

\* _parse_days on a list of words: the known day names, each once, in the
\* order typed
RECURSIVE _parse_days(_)
_parse_days(words) ==
    IF words = << >> THEN << >>
    ELSE LET head == _parse_days(SubSeq(words, 1, Len(words) - 1))
             token == words[Len(words)]
         IN  IF token \in DaySet /\ ~Contains(head, token)
             THEN Append(head, token) ELSE head

\* The daily jobs of the user: name, weekday and time of each.
DailySigs(J) ==
    { << J[i].name, J[i].day, J[i].time >> :
        i \in { k \in Indices(J) : J[k].owner = UID /\ IsDaily(J[k]) } }

\* deposit_callback, button depwin_change_sched: reminders clears user_data
\* (the wizard state with it) and asks for the days
depwin_change_sched ==
    /\ "freeze_complete" \in outbox
    /\ configured = None
    /\ user_data' = Some([step |-> "days", reminder_days |-> << >>,
                           reminder_time |-> None])
    /\ reg' = None
    /\ UNCHANGED << now, jobs, user_row, session_active, workout_session >>
    /\ ConfigFrame

\* handle_text while awaiting_reminder_days: no day disables the reminders
\* (UPDATE, _reschedule_from_db, session and user_data cleared), otherwise
\* the days are kept and the time is asked
text_reminder_days ==
    /\ reg = None
    /\ user_data # None
    /\ user_data[1].step = "days"
    /\ \E words \in ReminderDayTexts :
         LET days == _parse_days(words)
             row == IF IsNone(user_row) THEN user_row
                    ELSE Some([user_row[1] EXCEPT !.reminder_enabled = FALSE,
                                                  !.workout_duration = None])
             r == _reschedule_from_db(row, jobs, session_active, UID, now)
         IN  IF days = << >>
             THEN /\ user_row' = row
                  /\ jobs' = r.jobs
                  /\ session_active' = FALSE
                  /\ user_data' = None
             ELSE /\ user_data' = Some([user_data[1] EXCEPT
                                           !.step = "time", !.reminder_days = days])
                  /\ UNCHANGED << user_row, jobs, session_active >>
    /\ UNCHANGED << now, workout_session, reg >>
    /\ ConfigFrame

\* handle_text while awaiting_reminder_time: a time that parses is kept and
\* the duration is asked, anything else is asked again
text_reminder_time ==
    /\ reg = None
    /\ user_data # None
    /\ user_data[1].step = "time"
    /\ \E text \in ReminderTimeTexts :
         LET t == _parse_time_hhmm(text)
         IN  user_data' = IF IsNone(t) THEN user_data
                          ELSE Some([user_data[1] EXCEPT
                                       !.step = "duration", !.reminder_time = t])
    /\ UNCHANGED << now, jobs, user_row, session_active, workout_session, reg >>
    /\ ConfigFrame

\* handle_text while awaiting_reminder_duration: a duration of 5..240 minutes
\* completes the dialogue: the columns reminder_enabled, reminder_days,
\* reminder_time and workout_duration are written (no scheduling code reads
\* reminder_days or reminder_time; training_form is not written) and the
\* jobs of the typed schedule are registered
text_reminder_duration ==
    /\ reg = None
    /\ user_data # None
    /\ user_data[1].step = "duration"
    /\ \E text \in ReminderDurationTexts :
         LET dur == _parse_duration_minutes(text)
             days == user_data[1].reminder_days
             t == user_data[1].reminder_time[1]
             on == { days[i] : i \in 1..Len(days) }
             per_day_time == [d \in on |-> strftime(t)]
             per_day_duration == [d \in on |-> dur[1]]
         IN  IF IsNone(dur)
             THEN UNCHANGED << user_row, jobs, user_data >>
             ELSE /\ user_row' =
                       IF IsNone(user_row) THEN user_row
                       ELSE Some([user_row[1] EXCEPT
                                    !.reminder_enabled = TRUE,
                                    !.workout_duration = dur])
                  /\ jobs' = _schedule_reminders_per_day(jobs, UID, per_day_time,
                                 Some(per_day_duration), dur[1], now)
                  /\ user_data' = None
    /\ UNCHANGED << now, session_active, workout_session, reg >>
    /\ ConfigFrame

\* The process stops and starts again with no dialogue open: the job queue,
\* bot_data and user_data are rebuilt empty; the daily jobs registered until
\* then are remembered.
restart ==
    /\ configured = None
    /\ user_row # None
    /\ reg = None
    /\ user_data = None
    /\ configured' = Some([before |-> DailySigs(jobs), after |-> None,
                            enabled |-> user_row[1].reminder_enabled])
    /\ jobs' = << >>
    /\ session_active' = FALSE
    /\ workout_session' = None
    /\ UNCHANGED << now, user_row, reg, user_data >>
    /\ UNCHANGED << sets, photos_used, outbox, sched_last, sched_tick, last_fin,
                    win, last_photo, buttons, reg_done, wiz, gpt_call, relay,
                    flight >>

\* reschedule_all_users for the one user of the table: the jobs after the
\* call
reschedule_all_users_jobs(row, J, user_id, at) ==
    LET tf == _load_training_form(row)
        per_day_duration == IF tf.per_day_duration = << >> THEN None
                            ELSE Some(tf.per_day_duration)
        first == CHOOSE d \in DOMAIN tf.per_day_duration :
                    \A e \in DOMAIN tf.per_day_duration : day_idx(d) <= day_idx(e)
        default_dur == IF ~IsNone(row[1].workout_duration) /\ row[1].workout_duration[1] # 0
                       THEN row[1].workout_duration[1]
                       ELSE IF IsNone(per_day_duration) THEN DEFAULT_DURATION
                       ELSE tf.per_day_duration[first]
    IN  IF IsNone(row) THEN J
        ELSE IF ~row[1].reminder_enabled THEN J
        ELSE IF tf.per_day_time = << >> THEN J
        ELSE _schedule_reminders_per_day(J, user_id, tf.per_day_time,
                                         per_day_duration, default_dur, at)

\* reschedule_all_users after the restart
reschedule_all_users ==
    /\ configured # None
    /\ configured[1].after = None
    /\ jobs' = reschedule_all_users_jobs(user_row, jobs, UID, now)
    /\ configured' = Some([configured[1] EXCEPT !.after = Some(DailySigs(jobs'))])
    /\ UNCHANGED << now, user_row, session_active, workout_session, reg,
                    user_data >>
    /\ UNCHANGED << sets, photos_used, outbox, sched_last, sched_tick, last_fin,
                    win, last_photo, buttons, reg_done, wiz, gpt_call, relay,
                    flight >>

NextConfig ==
    \/ register_start
    \/ RegisterFinish
    \/ start_cb
    \/ mid_cb
    \/ end_cb
    \/ _no_start_job
    \/ DeadlinePasses
    \/ WorkoutSet
    \/ depwin_change_sched
    \/ text_reminder_days
    \/ text_reminder_time
    \/ text_reminder_duration
    \/ restart
    \/ reschedule_all_users

SpecConfig == InitCommon /\ [][NextConfig]_vars

\* C17: after a restart reschedule_all_users registers, for a user with
\* reminders enabled, exactly the daily jobs that were registered before the
\* restart.
C17_Claim ==
    (/\ configured # None
     /\ configured[1].enabled
     /\ configured[1].after # None)
        => configured[1].after[1] = configured[1].before


\* =========================================================================
\* SpecDeposit: registration, the workout of the day sent as workout_set
\* payloads, the no-start job, the buttons of the freeze-complete prompt
\* that repeat the freeze or change the amount, the dep_edit dialogue of
\* handle_text, and the administrator's /clear_db.
\* =========================================================================
DepositFrame ==
    UNCHANGED << now, jobs, workout_session, sets, photos_used, outbox,
                 sched_last, sched_tick, last_fin, win, last_photo, reg,
                 buttons, reg_done, wiz, gpt_call, relay, flight, configured >>

\* What the user types for the amount and for the number of days (None: no
\* digits in the text).
DepEditAmounts == { None, Some(100), Some(999999) }
DepEditDays == { None, Some(0), Some(1), Some(91) }

\* The length of the freeze typed at the end of the wizard.
FreezeDays == { 1 }

\* register_text at step ask_deposit_days with a freeze of one day:
\* _reg_finish, _persist_onboarding_schedule_per_day, the wizard state is
\* dropped (followed until the first freeze-complete prompt).
RegisterFreeze ==
    /\ reg # None
    /\ "freeze_complete" \notin outbox
    /\ \E st0 \in FinishStates, days \in FreezeDays :
         LET st == [st0 EXCEPT !.deposit_days = Some(days)]
             p == _persist_onboarding_schedule_per_day(user_row, jobs, UID, st, now)
         IN  /\ user_row' = p.row
             /\ jobs' = p.jobs
             /\ reg' = None
    /\ UNCHANGED << now, session_active, workout_session, sets, photos_used,
                    outbox, sched_last, sched_tick, last_fin, win, last_photo, elsewhere,
                    buttons, reg_done, wiz >>

\* deposit_callback, button depwin_change_amount of the freeze-complete
\* prompt: context.user_data["dep_edit"] = {"await": "amount"}
depwin_change_amount ==
    /\ "freeze_complete" \in outbox
    /\ user_data = None
    /\ user_data' = Some([step |-> "dep_amount", amount |-> None])
    /\ UNCHANGED << user_row, session_active >>
    /\ DepositFrame

\* handle_text with dep_edit awaiting the amount: the first run of digits is
\* clamped and kept, the days are asked; no digits: asked again
text_dep_amount ==
    /\ reg = None
    /\ user_data # None
    /\ user_data[1].step = "dep_amount"
    /\ \E typed \in DepEditAmounts :
         user_data' = IF IsNone(typed) THEN user_data
                      ELSE Some([step |-> "dep_days",
                                 amount |-> Some(_clamp_deposit(typed[1]))])
    /\ UNCHANGED << user_row, session_active >>
    /\ DepositFrame

\* handle_text with dep_edit awaiting the days: 1..90 days write the new
\* deposit and start a new window, dep_edit is dropped; anything else is
\* asked again
text_dep_days ==
    /\ reg = None
    /\ user_data # None
    /\ user_data[1].step = "dep_days"
    /\ \E typed \in DepEditDays :
         LET tf == _load_training_form(user_row)
             tf2 == [tf EXCEPT !.deposit = user_data[1].amount,
                               !.deposit_days = typed,
                               !.deposit_done_dates = << >>,
                               !.started_key = TRUE,
                               !.deposit_started_at = Some(Today(now)),
                               !.deposit_forfeit = FALSE,
                               !.deposit_left = user_data[1].amount]
         IN  IF IsNone(typed) THEN UNCHANGED << user_row, user_data >>
             ELSE IF typed[1] < 1 \/ typed[1] > 90
             THEN UNCHANGED << user_row, user_data >>
             ELSE /\ user_row' = UpdateTrainingForm(user_row, tf2)
                  /\ user_data' = None
    /\ UNCHANGED session_active
    /\ DepositFrame

\* clear_db sent by an administrator: every users row loses its reminders
\* and its training_form, the administrator's own jobs are removed, the
\* session flags of all users are dropped (followed once the user holds a
\* freeze-complete prompt, while the row has a training_form to lose)
clear_db ==
    /\ user_row # None
    /\ user_row[1].training_form # None
    /\ "freeze_complete" \in outbox
    /\ user_row' = Some([user_row[1] EXCEPT !.reminder_enabled = FALSE,
                                            !.workout_duration = None,
                                            !.training_form = None])
    /\ session_active' = FALSE
    /\ UNCHANGED user_data
    /\ DepositFrame

NextDeposit ==
    \/ register_start
    \/ RegisterFreeze
    \/ start_cb
    \/ _no_start_job
    \/ WorkoutSet
    \/ depwin_repeat
    \/ depwin_change_amount
    \/ text_dep_amount
    \/ text_dep_days
    \/ clear_db

SpecDeposit == InitCommon /\ [][NextDeposit]_vars

\* SpecForfeit: the part of SpecDeposit in which no button of the prompt is
\* pressed: the only writers of the record are the wizard, the settlements,
\* the no-start job and /clear_db.
NextForfeit ==
    \/ register_start
    \/ RegisterFreeze
    \/ start_cb
    \/ _no_start_job
    \/ WorkoutSet
    \/ clear_db

SpecForfeit == InitCommon /\ [][NextForfeit]_vars

\* C22: a settlement that is not credited and finds the deposit already
\* forfeited, or no deposit above 0, leaves the stored record as it is and
\* sends no notice; and on every stored record _forfeit_deposit applied to
\* its own result writes nothing and sends nothing (twice is the same as
\* once).
C22_Theorem ==
    [][/\ (/\ WorkoutSet
           /\ ~last_fin'[1].credited
           /\ ~last_fin'[1].raised
           /\ (last_fin'[1].forfeit_before \/ last_fin'[1].deposit_before <= 0))
          => (/\ user_row' = user_row
              /\ ~last_fin'[1].notice_tried
              /\ ~last_fin'[1].noticed)
       /\ \A ok \in BOOLEAN :
            LET once == _forfeit_deposit(user_row, ok)
            IN  _forfeit_deposit(once.row, ok) =
                    [row |-> once.row, wrote |-> FALSE, noticed |-> FALSE]
      ]_vars

\* A second workout was not credited after the deposit had been forfeited.
C22_Witness ==
    /\ last_fin # None
    /\ ~last_fin[1].credited
    /\ ~last_fin[1].raised
    /\ last_fin[1].forfeit_before
    /\ last_fin[1].deposit_before > 0
    /\ _load_training_form(user_row).deposit_forfeit

\* C23: every action that starts a new freeze window (the button
\* depwin_repeat, the completed dep_edit dialogue) leaves the stored record
\* with deposit_forfeit = false, deposit_left = deposit and no done date.
C23_Claim ==
    [][(depwin_repeat \/ (text_dep_days /\ user_data' = None)) =>
          LET tf == _load_training_form(user_row')
          IN  /\ ~tf.deposit_forfeit
              /\ tf.deposit_left = tf.deposit
              /\ tf.deposit_done_dates = << >>]_vars

\* C25: the freeze-complete prompt goes out only in a credited settlement
\* that leaves at least deposit_days done dates, and never while the
\* deposit is forfeited.
C25_Claim ==
    [][("freeze_complete" \notin outbox /\ "freeze_complete" \in outbox') =>
          (/\ last_fin'[1].credited
           /\ last_fin'[1].days_before > 0
           /\ Len(last_fin'[1].dates_after) >= last_fin'[1].days_before
           /\ ~last_fin'[1].forfeit_after)]_vars

\* C30: a deposit amount in the stored record lies in 500..100000, whichever
\* path wrote it.
C30_Claim ==
    LET tf == _load_training_form(user_row)
    IN  tf.deposit # None => (tf.deposit[1] >= DEP_MIN /\ tf.deposit[1] <= DEP_MAX)


\* =========================================================================
\* SpecDuration: the common-duration step of the wizard.  The wizard has
\* asked the times and the rest, the user has pressed "same duration for
\* all days" (dur_same) and sees the keyboard _dur_common_kb; from there the
\* presets, the four adjustment buttons, the typed value and "done".
\* =========================================================================
\* The deltas of the adjustment buttons of _dur_common_kb
DurationDeltas == { 0 - 5, 0 - 1, 1, 5 }

InitDuration ==
    /\ now = 0
    /\ jobs = << >>
    /\ user_row = Some(NewUserRow)
    /\ session_active = FALSE
    /\ workout_session = None
    /\ sets = << >>
    /\ photos_used = 0
    /\ outbox = {}
    /\ sched_last = None
    /\ sched_tick = FALSE
    /\ last_fin = None
    /\ win = None
    /\ last_photo = None
    /\ reg = Some([RegStart EXCEPT
                     !.step = "ask_duration_common_inline",
                     !.chosen_days = { "mon" },
                     !.schedule_map_time = [d \in { "mon" } |-> << 7, 0 >>],
                     !.rest_seconds = Some(DEFAULT_REST),
                     !.dur_mode = "same",
                     !.duration_common_min = Some(DEFAULT_DURATION)])
    /\ buttons = { << "dur_mode" >>, << "dur_common" >> }
    /\ reg_done = None
    /\ wiz = [latest |-> { << "dur_common" >> }, stale |-> 0, restarts |-> 0,
              adjusts |-> 0]
    /\ gpt_call = None
    /\ relay = RelayStart
    /\ flight = NoFlight
    /\ user_data = None
    /\ configured = None

\* register_callback, data dur_common_adj:<delta>, any of the four buttons
\* any number of times
cb_dur_common_adj_any ==
    \E delta \in DurationDeltas :
        LET cur == OrInt(reg[1].duration_common_min, DEFAULT_DURATION)
            v == Adjusted(cur, delta)
        IN  /\ Pressed(<< "dur_common" >>, {})
            /\ reg' = Some([reg[1] EXCEPT !.duration_common_min =
                                IF v # cur THEN Some(v) ELSE @])
            /\ WizFrame

NextDuration ==
    \/ cb_dur_same
    \/ cb_dur_common_set
    \/ cb_dur_common_adj_any
    \/ cb_dur_common_custom
    \/ cb_dur_common_done
    \/ text_duration_common

SpecDuration == InitDuration /\ [][NextDuration]_vars

=============================================================================
